---- MODULE Spec2Model ----
(***************************************************************************)
(* Quart-Admin: the view registry (admin.py), the authentication wrapper   *)
(* of the view routes (views/base.py), the CRUD handlers of ModelView      *)
(* (views/model.py) over the SQLAlchemy provider (database/sqlalchemy.py)  *)
(* and the form generator (forms/wtforms.py).                              *)
(***************************************************************************)
EXTENDS Integers, Sequences, FiniteSets, TLC

VARIABLES
    views,          \* QuartAdmin._views: view name -> view record
    categories,     \* QuartAdmin._categories: category -> sequence of view records
    models,         \* QuartAdmin._models: set of view names that have a model entry
    rules,          \* url rules added to the admin blueprint, in order
    auth_provider,  \* QuartAdmin.auth_provider is set (truthy)
    require_auth,   \* QuartAdminConfig.require_auth
    nviews,         \* number of add_view calls made so far
    areq,           \* the request passing through the authentication wrapper
    model_fields,   \* get_model_fields(model): the column descriptors of the model
    form_excluded_columns,  \* ModelView.form_excluded_columns
    session_factory,\* SQLAlchemyProvider.session_factory is set
    store,          \* the table of the model: id -> row
    next_id,        \* the next autoincrement primary key
    req,            \* the requests in the CRUD handlers
    last_update,    \* id -> the request whose update of that row committed last
    fgen,           \* a call of WTFormsGenerator.create_form: arguments and result
    call            \* a call of a helper (field mapping, value conversion,
                    \* display formatting, paging): arguments and result

adminVars == <<views, categories, models, rules, auth_provider, require_auth, nviews>>

crudVars == <<model_fields, form_excluded_columns, session_factory, store,
              next_id, req, last_update>>

vars == <<adminVars, areq, crudVars, fgen, call>>

----------------------------------------------------------------------------
(* Bounds *)

MaxViews == 2

MaxReq == 2

MaxId == 1

MaxVal == 1

MaxErr == 2

MaxCols == 2

----------------------------------------------------------------------------
(* Strings are sequences of one-character strings, so that lower() and      *)
(* replace() are computed character by character.                           *)

NameUser      == <<"U", "s", "e", "r">>
NameUserSpace == <<"U", "s", "e", "r", " ">>
NameuserLower == <<"u", "s", "e", "r">>
NameUserUnder == <<"U", "s", "e", "r", "_">>

Names == {NameUser, NameUserSpace, NameuserLower, NameUserUnder}

\* An absent (None) or empty string: both are falsy in `endpoint or ...`.
NoStr == << >>

ExplicitEndpoints == {NoStr, <<"u", "s", "e", "r">>}

Categories == {"", "Main"}

\* str.lower() on one character
UpperCase == <<"A", "B", "C", "D", "E", "F", "G", "H", "I", "J", "K", "L", "M",
               "N", "O", "P", "Q", "R", "S", "T", "U", "V", "W", "X", "Y", "Z">>

LowerCase == <<"a", "b", "c", "d", "e", "f", "g", "h", "i", "j", "k", "l", "m",
               "n", "o", "p", "q", "r", "s", "t", "u", "v", "w", "x", "y", "z">>

LowerChar(c) ==
    IF \E i \in 1..26 : UpperCase[i] = c
    THEN LowerCase[CHOOSE i \in 1..26 : UpperCase[i] = c]
    ELSE c

\* str.lower()
Lower(s) == [i \in 1..Len(s) |-> LowerChar(s[i])]

\* str.replace(" ", "_")
ReplaceSpace(s) == [i \in 1..Len(s) |-> IF s[i] = " " THEN "_" ELSE s[i]]

\* views/base.py:44  endpoint or name.lower().replace(" ", "_")
DeriveEndpoint(name, endpoint) ==
    IF endpoint # NoStr THEN endpoint ELSE ReplaceSpace(Lower(name))

\* the capability flags can_create, can_edit, can_view_details, can_delete and
\* can_export of a view, named by the handler each of them enables
Capabilities == {"create", "edit", "details", "delete", "export"}

\* AdminView.__init__ / ModelView.__init__: `can` is the set of capability
\* flags that are True, all of them after construction
AdminView(name, category, endpoint, viewAuth, isModel) ==
    [name          |-> name,
     category      |-> category,
     endpoint      |-> DeriveEndpoint(name, endpoint),
     auth_provider |-> viewAuth,
     is_model      |-> isModel,
     can           |-> Capabilities]

----------------------------------------------------------------------------
(* Route registration                                                       *)

\* The handlers of AdminView are all `async def`.
Handlers == {"list", "create", "edit", "details", "delete", "export"}

IsCoroutineFunction(h) == h \in Handlers

\* _wrap_with_auth that returns the handler unwrapped
WrapWithAuth_Unwrapped(viewAuth, h) == "view_func"

\* _wrap_with_auth that wraps whether or not a provider is set
WrapWithAuth_Always(viewAuth, h) == "async_wrapper"

\* AdminView._wrap_with_auth: which callable is registered for a handler
WrapWithAuth(viewAuth, h) ==
    IF viewAuth
    THEN IF IsCoroutineFunction(h) THEN "async_wrapper" ELSE "admin_required"
    ELSE "view_func"

\* AdminView.create_blueprint: the order of the add_url_rule calls
HandlerOrder == <<"list", "create", "edit", "details", "delete", "export">>

\* the methods= argument of each add_url_rule call
Methods(kind) == IF kind \in {"create", "edit"} THEN {"GET", "POST"}
                 ELSE IF kind = "delete" THEN {"POST"} ELSE {"GET"}

\* the rule create_blueprint adds for handler h
Rule(view, h) ==
    [view     |-> view,
     endpoint |-> <<view.endpoint, h>>,
     handler  |-> h,
     methods  |-> Methods(h),
     func     |-> WrapWithAuth(view.auth_provider, h)]

\* a registration that adds all six rules, whatever the flags
CreateBlueprint_AllRoutes(view) ==
    [i \in 1..Len(HandlerOrder) |-> Rule(view, HandlerOrder[i])]

\* AdminView.create_blueprint: the list rule always, every other rule when its
\* capability flag is set
CreateBlueprint(view) ==
    LET Registered(h) == h = "list" \/ h \in view.can
        hs == SelectSeq(HandlerOrder, Registered)
    IN  [i \in 1..Len(hs) |-> Rule(view, hs[i])]

\* url_for: the URL of a registered endpoint, BuildError for any other
NoUrl == << >>

url_for(registered, endpoint) ==
    IF endpoint \in registered THEN <<"url", endpoint>> ELSE <<"BuildError">>

\* AdminView.get_list_url .. get_export_url: get_list_url asks url_for
\* outright, the others only when their flag is set
get_url(view, h, registered) ==
    IF h = "list" \/ h \in view.can
    THEN url_for(registered, <<view.endpoint, h>>)
    ELSE NoUrl

----------------------------------------------------------------------------
(* QuartAdmin (admin.py)                                                    *)

EmptyMap == [x \in {} |-> x]

\* dict assignment d[k] = v
Put(d, k, v) == [x \in (DOMAIN d) \cup {k} |-> IF x = k THEN v ELSE d[x]]

\* view.category or "Default"
CategoryOf(view) == IF view.category # "" THEN view.category ELSE "Default"

\* QuartAdmin.add_view
add_view(view) ==
    LET v   == [view EXCEPT !.auth_provider = view.auth_provider \/ auth_provider]
        cat == CategoryOf(v)
        old == IF cat \in DOMAIN categories THEN categories[cat] ELSE << >>
    IN  /\ nviews < MaxViews
        /\ nviews' = nviews + 1
        /\ views' = Put(views, v.name, v)
        /\ categories' = Put(categories, cat, Append(old, v))
        /\ rules' = rules \o CreateBlueprint(v)
        /\ models' = IF v.is_model THEN models \cup {v.name} ELSE models
        /\ UNCHANGED <<auth_provider, require_auth>>

\* admin.add_view(AdminView(name, category, endpoint, auth_provider))
AddView(name, category, endpoint, viewAuth) ==
    /\ add_view(AdminView(name, category, endpoint, viewAuth, FALSE))
    /\ UNCHANGED <<areq, crudVars, fgen, call>>

\* QuartAdmin.add_model_view: the view gets the admin's providers
AddModelView(name, category) ==
    /\ add_view(AdminView(name, category, NoStr, auth_provider, TRUE))
    /\ UNCHANGED <<areq, crudVars, fgen, call>>

\* QuartAdmin.create_default_providers: sets the authentication provider when
\* none is set and Quart-Auth can be imported
CreateDefaultProviders(importOk) ==
    /\ ~auth_provider
    /\ auth_provider' = importOk
    /\ UNCHANGED <<views, categories, models, rules, require_auth, nviews, areq>>
    /\ UNCHANGED <<crudVars, fgen, call>>

----------------------------------------------------------------------------
(* A request through the authentication wrapper                             *)

IdleReq == [pc |-> "idle", rule |-> 0, func |-> "view_func",
            authd |-> FALSE, admin |-> FALSE,
            calls |-> << >>, status |-> 0, handler_invoked |-> FALSE]

\* a dispatch that guards a view route whenever the admin has an
\* authentication provider at the time of the request
FuncOf_Live(i) ==
    IF i = 0
    THEN IF require_auth /\ auth_provider THEN "async_wrapper" ELSE "view_func"
    ELSE IF auth_provider THEN "async_wrapper" ELSE rules[i].func

\* rule 0 is the admin index route; its guard is evaluated per request
\* (admin.py:83), the guard of a view route was fixed by _wrap_with_auth
FuncOf(i) ==
    IF i = 0
    THEN IF require_auth /\ auth_provider THEN "async_wrapper" ELSE "view_func"
    ELSE rules[i].func

\* a request arrives for rule i; the provider will answer authd / admin
ReqStart(i, authd, admin) ==
    /\ areq.pc = "idle"
    /\ areq' = [IdleReq EXCEPT !.pc = "start", !.rule = i, !.func = FuncOf(i),
                               !.authd = authd, !.admin = admin]
    /\ UNCHANGED <<adminVars, crudVars, fgen, call>>

\* async_wrapper: if not await self.auth_provider.is_authenticated(): abort(401)
CheckAuthenticated ==
    /\ areq.pc = "start"
    /\ areq.func = "async_wrapper"
    /\ areq' = [areq EXCEPT
                  !.calls  = Append(@, "is_authenticated"),
                  !.pc     = IF areq.authd THEN "authenticated" ELSE "rejected",
                  !.status = IF areq.authd THEN 0 ELSE 401]
    /\ UNCHANGED <<adminVars, crudVars, fgen, call>>

\* async_wrapper: if not await self.auth_provider.has_admin_access(): abort(403)
CheckAdminAccess ==
    /\ areq.pc = "authenticated"
    /\ areq' = [areq EXCEPT
                  !.calls  = Append(@, "has_admin_access"),
                  !.pc     = IF areq.admin THEN "authorized" ELSE "rejected",
                  !.status = IF areq.admin THEN 0 ELSE 403]
    /\ UNCHANGED <<adminVars, crudVars, fgen, call>>

\* return await view_func(*args, **kwargs), or the unwrapped view_func
InvokeHandler ==
    /\ \/ areq.pc = "authorized"
       \/ areq.pc = "start" /\ areq.func = "view_func"
    /\ areq' = [areq EXCEPT !.pc = "handler", !.handler_invoked = TRUE,
                            !.status = 200]
    /\ UNCHANGED <<adminVars, crudVars, fgen, call>>

\* the response has been sent
ReqFinish ==
    /\ areq.pc \in {"handler", "rejected"}
    /\ areq' = IdleReq
    /\ UNCHANGED <<adminVars, crudVars, fgen, call>>

----------------------------------------------------------------------------
(* Column descriptors, rows and forms                                       *)

Reqs == 1..MaxReq

Ids == 1..MaxId

Vals == 0..MaxVal

\* Python None as a column / field value
None == -1

FieldVals == Vals \cup {None}

\* a model with a single primary key
SingleKey == << [name |-> "id", primary_key |-> TRUE],
                [name |-> "a",  primary_key |-> FALSE],
                [name |-> "b",  primary_key |-> FALSE] >>

\* a model with a composite primary key (id, b)
CompositeKey == << [name |-> "id", primary_key |-> TRUE],
                   [name |-> "b",  primary_key |-> TRUE],
                   [name |-> "a",  primary_key |-> FALSE] >>

\* a row of the table, and the dictionary _model_to_dict makes of it;
\* present = FALSE stands for "no row" / None
NoRow == [present |-> FALSE, a |-> None, b |-> None]

Row(a, b) == [present |-> TRUE, a |-> a, b |-> b]

\* a key lookup that keeps only the first key column
get_primary_key_fields_First(fields) ==
    LET IsPk(fi) == fi.primary_key
        pk == SelectSeq(fields, IsPk)
    IN  IF pk = << >> THEN pk ELSE <<pk[1]>>

\* SQLAlchemyProvider.get_primary_key_fields
get_primary_key_fields(fields) ==
    LET IsPk(fi) == fi.primary_key IN SelectSeq(fields, IsPk)

\* WTFormsGenerator.create_form (src/quart_admin/forms/wtforms.py): the columns
\* that get a field; hasObj is the truth value of obj
create_form(fields, hasObj, excluded) ==
    LET Keep(fi) == /\ ~(excluded # {} /\ fi.name \in excluded)
                    /\ ~(fi.primary_key /\ ~hasObj)
    IN  SelectSeq(fields, Keep)

\* WTFormsGenerator.create_form of the package copy at the repository root
\* (quart_admin/forms/wtforms.py): no primary-key test
create_form_root(fields, hasObj, excluded) ==
    LET Keep(fi) == ~(excluded # {} /\ fi.name \in excluded)
    IN  SelectSeq(fields, Keep)

\* the names of the fields a form iterates over: the column fields and the
\* csrf_token field of FlaskForm
FormFieldNames(form) == {form[i].name : i \in 1..Len(form)} \cup {"csrf_token"}

AllFieldNames == {"id", "a", "b", "csrf_token"}

ColumnNames == {"id", "a", "b"}

\* submitted field data: field.data of every column field
FormData == [ColumnNames -> FieldVals]

\* form.errors: the number of validation errors of every field
FormErrors == [AllFieldNames -> 0..MaxErr]

RECURSIVE SumOver(_, _)
SumOver(f, S) ==
    IF S = {} THEN 0
    ELSE LET x == CHOOSE y \in S : TRUE IN f[x] + SumOver(f, S \ {x})

----------------------------------------------------------------------------
(* Sessions (SQLAlchemyProvider.get_session)                                *)

\* exceptions: ValueError and DBError derive from Exception, a cancellation
\* (asyncio.CancelledError) derives from BaseException only
IsException(e) == e \in {"ValueError", "DBError"}

NewSession == [released |-> FALSE, rollbacks |-> 0, raised |-> "none"]

\* a session exit that returns without the factory's __aexit__ after an error
SessionExit_Leak(sess, e) ==
    [released  |-> e = "none",
     rollbacks |-> IF e \in {"ValueError", "DBError"}
                   THEN sess.rollbacks + 1 ELSE sess.rollbacks,
     raised    |-> e]

\* leaving the `async with self.get_database_session()` block with the
\* exception e raised by the block ("none" when it completes or returns):
\* except Exception: rollback, raise; then the session factory's __aexit__
SessionExit(sess, e) ==
    [released  |-> TRUE,
     rollbacks |-> IF IsException(e) THEN sess.rollbacks + 1 ELSE sess.rollbacks,
     raised    |-> e]

----------------------------------------------------------------------------
(* Requests in the handlers of ModelView                                    *)

NoCalls == [get_by_pk |-> 0, create |-> 0, update |-> 0, delete |-> 0]

NoData == [f \in ColumnNames |-> None]

NoErrors == [f \in AllFieldNames |-> 0]

IdleCrud == [pc |-> "idle", kind |-> "none", method |-> "GET", id |-> 0,
             item |-> NoRow, instance |-> NoRow,
             data |-> NoData, form_data |-> EmptyMap,
             errors |-> NoErrors, validated |-> FALSE,
             sessions |-> << >>, calls |-> NoCalls, returned |-> {},
             commits |-> 0,
             notices |-> << >>, result |-> "none", exc |-> "none"]

Notice(category, text) == [category |-> category, text |-> text]

\* a session source that never refuses
get_session_raises_Never(factory) == FALSE

\* SQLAlchemyProvider.get_session, lines 29-30: without a session factory the
\* ValueError("Session factory not configured") is raised before
\* `async with self.session_factory()` is reached
get_session_raises(factory) == ~factory

\* the last session of request q, opened and not yet left
OpenSession(q) == Append(q.sessions, NewSession)

\* leave the innermost (last) session with exception e
CloseSession(q, e) ==
    [q.sessions EXCEPT ![Len(q.sessions)] = SessionExit(@, e)]

\* the request ends with a response
Respond(q, result) == [q EXCEPT !.pc = "done", !.result = result]

\* the request ends with an exception propagating out of the handler
Raise(q, e) == [q EXCEPT !.pc = "done", !.result = "exception", !.exc = e]

\* a flash loop that reports each field once, whatever its number of errors
RECURSIVE FlashErrors_PerField(_, _)
FlashErrors_PerField(S, errors) ==
    IF S = {} THEN << >>
    ELSE LET f == CHOOSE g \in S : TRUE
         IN  (IF errors[f] > 0 THEN <<Notice("error", f)>> ELSE << >>)
                \o FlashErrors_PerField(S \ {f}, errors)

\* for field_name, errors in form.errors.items(): for error in errors: flash
RECURSIVE FlashErrors(_, _)
FlashErrors(S, errors) ==
    IF S = {} THEN << >>
    ELSE LET f == CHOOSE g \in S : TRUE
         IN  [i \in 1..errors[f] |-> Notice("error", f)]
                \o FlashErrors(S \ {f}, errors)

\* errors are reported for fields of the form only
ErrorsOnForm(form, errors) ==
    \A f \in AllFieldNames : f \notin FormFieldNames(form) => errors[f] = 0

\* data is submitted for fields of the form only
DataOnForm(form, data) ==
    \A f \in ColumnNames : f \notin FormFieldNames(form) => data[f] = None

\* what no handler changes
ConfigFrame ==
    /\ UNCHANGED <<model_fields, form_excluded_columns, session_factory>>
    /\ UNCHANGED <<adminVars, areq, fgen, call>>

\* what a handler step that writes nothing leaves alone
ReadFrame == ConfigFrame /\ UNCHANGED <<store, next_id, last_update>>

\* a request arrives at a handler of the model view
Begin(r, kind, method, id) ==
    /\ req[r].pc = "idle"
    /\ req' = [req EXCEPT ![r] = [IdleCrud EXCEPT !.pc = "start", !.kind = kind,
                                     !.method = method, !.id = id]]
    /\ ReadFrame

\* ModelView.list_view
ListView(r) ==
    LET q == req[r] IN
    /\ q.pc = "start" /\ q.kind = "list"
    /\ req' = [req EXCEPT ![r] =
                 IF get_session_raises(session_factory)
                 THEN Raise(q, "ValueError")
                 ELSE Respond([q EXCEPT !.sessions =
                                  <<SessionExit(NewSession, "none")>>],
                              "render_list")]
    /\ ReadFrame

\* form.validate_on_submit(): submitted (POST) and no validation error
ValidateOnSubmit(method, errors) ==
    method = "POST" /\ SumOver(errors, AllFieldNames) = 0

\* the inputs of a form step: data and errors belong to fields of the form, a
\* GET submits nothing, and the data of a rejected submission is not looked at
SubmissionOk(form, method, data, errors) ==
    /\ ErrorsOnForm(form, errors)
    /\ DataOnForm(form, data)
    /\ method = "GET" => (data = NoData /\ errors = NoErrors)
    /\ errors # NoErrors => data = NoData

\* the branch of create_view / edit_view taken when validate_on_submit() is
\* false: flash the field errors of a POST, then render the form template
RenderForm(q, form, errors) ==
    Respond([q EXCEPT !.notices =
                IF q.method = "POST"
                THEN @ \o FlashErrors(FormFieldNames(form), errors)
                ELSE @],
            "render_form")

\* create_view, lines 166-169: the field data handed to create
CreateFormData(form, data) ==
    [f \in {g \in FormFieldNames(form) : g # "csrf_token" /\ data[g] # None}
        |-> data[f]]

\* ModelView.create_view up to the await of database_provider.create
CreateView(r, data, errors) ==
    LET q    == req[r]
        form == create_form(model_fields, FALSE, form_excluded_columns)
        q1   == [q EXCEPT !.data = data, !.errors = errors,
                          !.validated = ValidateOnSubmit(q.method, errors)]
    IN
    /\ q.pc = "start" /\ q.kind = "create"
    /\ SubmissionOk(form, q.method, data, errors)
    /\ ValidateOnSubmit(q.method, errors) => next_id <= MaxId
    /\ req' = [req EXCEPT ![r] =
         IF ValidateOnSubmit(q.method, errors)
         THEN IF get_session_raises(session_factory)
              THEN Raise(q1, "ValueError")
              ELSE [q1 EXCEPT !.sessions = OpenSession(q1),
                              !.form_data = CreateFormData(form, data),
                              !.calls.create = @ + 1,
                              !.pc = "create_commit"]
         ELSE RenderForm(q1, form, errors)]
    /\ ReadFrame

\* the row model(**data) makes: columns without data keep their default
NewRow(fd) ==
    Row(IF "a" \in DOMAIN fd THEN fd["a"] ELSE None,
        IF "b" \in DOMAIN fd THEN fd["b"] ELSE None)

\* a create that is called a second time before it commits
CreateCommit_Retry(r) ==
    LET q == req[r] IN
    /\ q.pc = "create_commit"
    /\ next_id <= MaxId
    /\ store' = [store EXCEPT ![next_id] = NewRow(q.form_data)]
    /\ next_id' = next_id + 1
    /\ req' = [req EXCEPT ![r] =
         Respond([q EXCEPT !.commits = @ + 1,
                           !.calls.create = @ + 1,
                           !.returned = @ \cup {"create"},
                           !.notices = Append(@, Notice("success", "created")),
                           !.sessions = CloseSession(q, "none")],
                 "redirect_list")]
    /\ UNCHANGED last_update
    /\ ConfigFrame

\* SQLAlchemyProvider.create commits; create_view flashes and redirects
CreateCommit(r) ==
    LET q == req[r] IN
    /\ q.pc = "create_commit"
    /\ next_id <= MaxId
    /\ store' = [store EXCEPT ![next_id] = NewRow(q.form_data)]
    /\ next_id' = next_id + 1
    /\ req' = [req EXCEPT ![r] =
         Respond([q EXCEPT !.commits = @ + 1,
                           !.returned = @ \cup {"create"},
                           !.notices = Append(@, Notice("success", "created")),
                           !.sessions = CloseSession(q, "none")],
                 "redirect_list")]
    /\ UNCHANGED last_update
    /\ ConfigFrame

\* `if not item:` on the dictionary get_by_pk returned (None when no row)
NotItem_Never(item) == FALSE

NotItem(item) == ~item.present

\* `if not instance:` on the result of scalar_one_or_none() in update / delete
NotInstance(row) == ~row.present

\* ModelView.edit_view, lines 196-213: the key check and the first session
EditBegin(r) ==
    LET q == req[r]
        pk_fields == get_primary_key_fields(model_fields)
        q1 == [q EXCEPT !.sessions = OpenSession(q),
                        !.calls.get_by_pk = @ + 1,
                        !.item = store[q.id]]
    IN
    /\ q.pc = "start" /\ q.kind = "edit"
    /\ req' = [req EXCEPT ![r] =
         IF Len(pk_fields) # 1 THEN Raise(q, "ValueError")
         ELSE IF get_session_raises(session_factory) THEN Raise(q, "ValueError")
         ELSE IF NotItem(q1.item)
              THEN Respond([q1 EXCEPT
                               !.notices = Append(@, Notice("error", "not found")),
                               !.sessions = CloseSession(q1, "none")],
                           "redirect_list")
              ELSE [q1 EXCEPT !.sessions = CloseSession(q1, "none"),
                              !.pc = "edit_form"]]
    /\ ReadFrame

\* field data that leaves out csrf_token only
EditFormData_KeepKey(form, pk_fields, data) ==
    [f \in FormFieldNames(form) \ {"csrf_token"} |-> data[f]]

\* edit_view, lines 225-230: the field data handed to update
EditFormData(form, pk_fields, data) ==
    LET excluded_fields == {"csrf_token"} \cup
                              {pk_fields[i].name : i \in 1..Len(pk_fields)}
    IN  [f \in FormFieldNames(form) \ excluded_fields |-> data[f]]

\* edit_view, lines 215-251: the form, and the second session up to the
\* select of SQLAlchemyProvider.update
EditForm(r, data, errors) ==
    LET q    == req[r]
        form == create_form(model_fields, q.item.present, form_excluded_columns)
        pk_fields == get_primary_key_fields(model_fields)
        q1   == [q EXCEPT !.data = data, !.errors = errors,
                          !.validated = ValidateOnSubmit(q.method, errors)]
        q2   == [q1 EXCEPT !.sessions = OpenSession(q1),
                           !.form_data = EditFormData(form, pk_fields, data),
                           !.calls.update = @ + 1,
                           !.instance = store[q.id]]
    IN
    /\ q.pc = "edit_form"
    /\ SubmissionOk(form, q.method, data, errors)
    /\ req' = [req EXCEPT ![r] =
         IF ValidateOnSubmit(q.method, errors)
         THEN IF get_session_raises(session_factory) THEN Raise(q1, "ValueError")
              ELSE IF NotInstance(q2.instance)
                   THEN Raise([q2 EXCEPT !.sessions = CloseSession(q2, "ValueError")],
                              "ValueError")
                   ELSE [q2 EXCEPT !.pc = "update_commit"]
         ELSE RenderForm(q1, form, errors)]
    /\ ReadFrame

\* an update that sets no attribute
SetAttrs_Skip(row, fd) == row

\* SQLAlchemyProvider.update, lines 118-120: setattr for every key the
\* instance has
SetAttrs(row, fd) ==
    [row EXCEPT !.a = IF "a" \in DOMAIN fd THEN fd["a"] ELSE @,
                !.b = IF "b" \in DOMAIN fd THEN fd["b"] ELSE @]

\* SQLAlchemyProvider.update, lines 118-126 (setattr, flush, refresh, commit),
\* then the success notice and the redirect of edit_view.  The flush of a row
\* that is gone fails in the store.
UpdateCommit(r) ==
    LET q == req[r] IN
    /\ q.pc = "update_commit"
    /\ IF ~store[q.id].present
       THEN /\ req' = [req EXCEPT ![r] =
                  Raise([q EXCEPT !.sessions = CloseSession(q, "DBError")],
                        "DBError")]
            /\ UNCHANGED <<store, last_update>>
       ELSE /\ store' = [store EXCEPT ![q.id] = SetAttrs(@, q.form_data)]
            /\ last_update' = [last_update EXCEPT ![q.id] = r]
            /\ req' = [req EXCEPT ![r] =
                  Respond([q EXCEPT !.commits = @ + 1,
                                    !.returned = @ \cup {"update"},
                                    !.notices = Append(@, Notice("success", "updated")),
                                    !.sessions = CloseSession(q, "none")],
                          "redirect_list")]
    /\ UNCHANGED next_id
    /\ ConfigFrame

\* ModelView.details_view
DetailsView(r) ==
    LET q == req[r]
        pk_fields == get_primary_key_fields(model_fields)
        q0 == [q EXCEPT !.sessions = OpenSession(q)]
        q1 == [q0 EXCEPT !.calls.get_by_pk = @ + 1, !.item = store[q.id]]
    IN
    /\ q.pc = "start" /\ q.kind = "details"
    /\ req' = [req EXCEPT ![r] =
         IF get_session_raises(session_factory) THEN Raise(q, "ValueError")
         ELSE IF Len(pk_fields) # 1
              THEN Raise([q0 EXCEPT !.sessions = CloseSession(q0, "ValueError")],
                         "ValueError")
         ELSE IF NotItem(q1.item)
              THEN Respond([q1 EXCEPT
                               !.notices = Append(@, Notice("error", "not found")),
                               !.sessions = CloseSession(q1, "none")],
                           "redirect_list")
              ELSE Respond([q1 EXCEPT !.sessions = CloseSession(q1, "none")],
                           "render_details")]
    /\ ReadFrame

\* ModelView.delete_view up to the select of SQLAlchemyProvider.delete
DeleteBegin(r) ==
    LET q == req[r]
        pk_fields == get_primary_key_fields(model_fields)
        q0 == [q EXCEPT !.sessions = OpenSession(q)]
        q1 == [q0 EXCEPT !.calls.delete = @ + 1, !.instance = store[q.id]]
    IN
    /\ q.pc = "start" /\ q.kind = "delete"
    /\ req' = [req EXCEPT ![r] =
         IF get_session_raises(session_factory) THEN Raise(q, "ValueError")
         ELSE IF Len(pk_fields) # 1
              THEN Raise([q0 EXCEPT !.sessions = CloseSession(q0, "ValueError")],
                         "ValueError")
         ELSE IF NotInstance(q1.instance)
              THEN Respond([q1 EXCEPT
                               !.returned = @ \cup {"delete"},
                               !.notices = Append(@, Notice("error", "not found")),
                               !.sessions = CloseSession(q1, "none")],
                           "redirect_list")
              ELSE [q1 EXCEPT !.pc = "delete_commit"]]
    /\ ReadFrame

\* SQLAlchemyProvider.delete, lines 149-151 (delete, commit, return True),
\* then the success notice and the redirect of delete_view
DeleteCommit(r) ==
    LET q == req[r] IN
    /\ q.pc = "delete_commit"
    /\ store' = [store EXCEPT ![q.id] = NoRow]
    /\ req' = [req EXCEPT ![r] =
         Respond([q EXCEPT !.commits = @ + 1,
                           !.returned = @ \cup {"delete"},
                           !.notices = Append(@, Notice("success", "deleted")),
                           !.sessions = CloseSession(q, "none")],
                 "redirect_list")]
    /\ UNCHANGED <<next_id, last_update>>
    /\ ConfigFrame

\* an await inside a session scope raises: the store fails (DBError) or the
\* request task is cancelled (Cancelled)
Fault(r, e) ==
    LET q == req[r] IN
    /\ q.pc \in {"create_commit", "update_commit", "delete_commit"}
    /\ req' = [req EXCEPT ![r] =
                 Raise([q EXCEPT !.sessions = CloseSession(q, e)], e)]
    /\ ReadFrame

\* the response (or the error) has been delivered
Finish(r) ==
    /\ req[r].pc = "done"
    /\ req' = [req EXCEPT ![r] = IdleCrud]
    /\ ReadFrame

----------------------------------------------------------------------------
(* Calls of the form generators                                             *)

\* the column descriptor lists a model can have: up to MaxCols columns with
\* distinct names
FieldLists ==
    {fl \in UNION {[1..n -> [name : ColumnNames, primary_key : BOOLEAN]]
                      : n \in 0..MaxCols} :
        \A i, j \in DOMAIN fl : i # j => fl[i].name # fl[j].name}

\* no helper call is in progress
NoHelperCall == [op |-> "none"]

NoCall == [fields |-> << >>, has_obj |-> FALSE, excluded |-> {},
           generator |-> "none", form |-> << >>]

\* create_form(model, provider, obj, excluded_columns) of the generator in
\* src/quart_admin/forms/wtforms.py
CallCreateForm ==
    /\ fgen.generator = "none"
    /\ fgen' = [fgen EXCEPT !.generator = "src",
                  !.form = create_form(fgen.fields, fgen.has_obj, fgen.excluded)]
    /\ UNCHANGED <<adminVars, areq, crudVars, call>>

\* the same call on the generator in quart_admin/forms/wtforms.py
CallCreateFormRoot ==
    /\ fgen.generator = "none"
    /\ fgen' = [fgen EXCEPT !.generator = "root",
                  !.form = create_form_root(fgen.fields, fgen.has_obj, fgen.excluded)]
    /\ UNCHANGED <<adminVars, areq, crudVars, call>>

----------------------------------------------------------------------------
(* Field mapping (WTFormsGenerator.get_field_for_column)                    *)

\* `sub in s` on strings
Contains(s, sub) ==
    \E i \in 1..(Len(s) - Len(sub) + 1) : SubSeq(s, i, i + Len(sub) - 1) = sub

Digits == <<"0", "1", "2", "3", "4", "5", "6", "7", "8", "9">>

IsDigit(c) == \E d \in 1..10 : Digits[d] = c

DigitValue(c) == (CHOOSE d \in 1..10 : Digits[d] = c) - 1

\* int() of a string of decimal digits
RECURSIVE ParseInt(_)
ParseInt(ds) ==
    IF ds = << >> THEN 0
    ELSE 10 * ParseInt(SubSeq(ds, 1, Len(ds) - 1)) + DigitValue(ds[Len(ds)])

\* the matches of the pattern \((\d+)\) in s, as pairs of the positions of
\* the two parentheses
ParenMatches(s) ==
    {m \in (1..Len(s)) \X (1..Len(s)) :
        /\ s[m[1]] = "(" /\ s[m[2]] = ")"
        /\ m[2] > m[1] + 1
        /\ \A k \in (m[1] + 1)..(m[2] - 1) : IsDigit(s[k])}

\* re.search(r"\((\d+)\)", s): the leftmost match, or none
HasParenMatch(s) == ParenMatches(s) # {}

\* int(match.group(1)) of the leftmost match
ParenInt(s) ==
    LET m == CHOOSE x \in ParenMatches(s) :
                 \A y \in ParenMatches(s) : x[1] <= y[1]
    IN  ParseInt(SubSeq(s, m[1] + 1, m[2] - 1))

\* the declared type names, in the spelling a dialect may give them
TypeBases ==
    { <<"I", "N", "T", "E", "G", "E", "R">>,
      <<"B", "i", "g", "I", "n", "t">>,
      <<"B", "O", "O", "L", "E", "A", "N">>,
      <<"T", "e", "x", "t">>,
      <<"C", "L", "O", "B">>,
      <<"J", "S", "O", "N">>,
      <<"j", "s", "o", "n", "b">>,
      <<"D", "A", "T", "E", "T", "I", "M", "E">>,
      <<"T", "I", "M", "E", "S", "T", "A", "M", "P">>,
      <<"V", "A", "R", "C", "H", "A", "R">>,
      <<"c", "h", "a", "r">>,
      <<"S", "T", "R", "I", "N", "G">>,
      <<"B", "I", "N", "A", "R", "Y">>,
      <<"D", "E", "C", "I", "M", "A", "L">>,
      <<"I", "N", "T", "E", "R", "V", "A", "L">>,
      <<"B", "O", "O", "L", "I", "N", "T">>,
      <<"T", "E", "X", "T", "B", "O", "O", "L">>,
      <<"J", "S", "O", "N", "T", "E", "X", "T">>,
      <<"T", "I", "M", "E", "S", "T", "A", "M", "P", "J", "S", "O", "N">>,
      <<"C", "H", "A", "R", "T", "I", "M", "E", "S", "T", "A", "M", "P">> }

\* what follows the name: nothing, a length, or parentheses without a number
TypeSuffixes ==
    { <<>>,
      <<"(", "5", ")">>,
      <<"(", "1", "2", ")">>,
      <<"(", ")">>,
      <<"(", "x", ")">> }

TypeStrings == {b \o x : b \in TypeBases, x \in TypeSuffixes}

\* the column descriptors of get_model_fields that get_field_for_column reads;
\* default is None or a value (0 is a declared default that is falsy)
ColumnInfos ==
    [type : TypeStrings, nullable : BOOLEAN, primary_key : BOOLEAN,
     default : {None, 0}]

\* validators
DataRequired == [v |-> "DataRequired", max |-> 0]

OptionalValidator == [v |-> "Optional", max |-> 0]

Length(max) == [v |-> "Length", max |-> max]

Field(kind, validators) == [kind |-> kind, validators |-> validators]

\* the validators list built before the type is looked at
BaseValidators_IgnoreDefault(ci) ==
    IF ~ci.nullable /\ ~ci.primary_key
    THEN <<DataRequired>> ELSE <<OptionalValidator>>

BaseValidators(ci) ==
    LET has_default == ci.default # None IN
    IF ~ci.nullable /\ ~ci.primary_key /\ ~has_default
    THEN <<DataRequired>> ELSE <<OptionalValidator>>

\* the length validator of the default (string) branch
LengthValidators_AnyType(column_type) ==
    IF HasParenMatch(column_type)
    THEN <<Length(ParenInt(column_type))>> ELSE << >>

LengthValidators(column_type) ==
    IF Contains(column_type, <<"v", "a", "r", "c", "h", "a", "r">>)
       \/ Contains(column_type, <<"c", "h", "a", "r">>)
    THEN IF HasParenMatch(column_type)
         THEN <<Length(ParenInt(column_type))>> ELSE << >>
    ELSE << >>

\* the type rules with the boolean test ahead of the integer test
FieldKind_BoolFirst(column_type) ==
    IF Contains(column_type, <<"b", "o", "o", "l">>) THEN "BooleanField"
    ELSE IF Contains(column_type, <<"i", "n", "t">>) THEN "IntegerField"
    ELSE IF Contains(column_type, <<"t", "e", "x", "t">>)
            \/ Contains(column_type, <<"c", "l", "o", "b">>) THEN "TextAreaField"
    ELSE IF Contains(column_type, <<"j", "s", "o", "n">>) THEN "TextAreaField"
    ELSE IF Contains(column_type, <<"d", "a", "t", "e", "t", "i", "m", "e">>)
            \/ Contains(column_type, <<"t", "i", "m", "e", "s", "t", "a", "m", "p">>)
         THEN "DateTimeField"
    ELSE "StringField"

\* the if/elif chain over the lower-cased type
FieldKind(column_type) ==
    IF Contains(column_type, <<"i", "n", "t">>) THEN "IntegerField"
    ELSE IF Contains(column_type, <<"b", "o", "o", "l">>) THEN "BooleanField"
    ELSE IF Contains(column_type, <<"t", "e", "x", "t">>)
            \/ Contains(column_type, <<"c", "l", "o", "b">>) THEN "TextAreaField"
    ELSE IF Contains(column_type, <<"j", "s", "o", "n">>) THEN "TextAreaField"
    ELSE IF Contains(column_type, <<"d", "a", "t", "e", "t", "i", "m", "e">>)
            \/ Contains(column_type, <<"t", "i", "m", "e", "s", "t", "a", "m", "p">>)
         THEN "DateTimeField"
    ELSE "StringField"

\* WTFormsGenerator.get_field_for_column
get_field_for_column(ci) ==
    LET column_type == Lower(ci.type)
        validators  == BaseValidators(ci)
        kind        == FieldKind(column_type)
    IN  IF kind = "BooleanField" THEN Field(kind, << >>)
        ELSE IF kind = "StringField"
             THEN Field(kind, validators \o LengthValidators(column_type))
             ELSE Field(kind, validators)

\* a call get_field_for_column(column_info)
CallGetField ==
    /\ call.op = "get_field_for_column" /\ ~call.done
    /\ call' = [call EXCEPT !.done = TRUE,
                   !.field = get_field_for_column(call.column_info)]
    /\ UNCHANGED <<adminVars, areq, crudVars, fgen>>

----------------------------------------------------------------------------
(* Python values of a column, their JSON text and their string              *)
(* representation                                                           *)

\* a value: None, a bool, an int, a str, a datetime (s is str(value)), an
\* object without JSON form (s is str(value)), a list (items) or a dict
\* (keys and items, in insertion order)
Value(t, n, s, keys, items) ==
    [t |-> t, n |-> n, s |-> s, keys |-> keys, items |-> items]

VNone == Value("none", 0, << >>, << >>, << >>)

VBool(b) == Value("bool", IF b THEN 1 ELSE 0, << >>, << >>, << >>)

VInt(n) == Value("int", n, << >>, << >>, << >>)

VStr(s) == Value("str", 0, s, << >>, << >>)

VDateTime(s) == Value("datetime", 0, s, << >>, << >>)

VObject(s) == Value("object", 0, s, << >>, << >>)

VList(items) == Value("list", 0, << >>, << >>, items)

VDict(keys, items) == Value("dict", 0, << >>, keys, items)

\* isinstance(value, str)
IsStr(v) == v.t = "str"

\* isinstance(value, (dict, list))
IsContainer(v) == v.t \in {"dict", "list"}

RECURSIVE Concat(_)
Concat(ss) == IF ss = << >> THEN << >> ELSE Head(ss) \o Concat(Tail(ss))

\* sep.join(parts)
RECURSIVE Join(_, _)
Join(sep, parts) ==
    IF parts = << >> THEN << >>
    ELSE IF Len(parts) = 1 THEN parts[1]
    ELSE parts[1] \o sep \o Join(sep, Tail(parts))

\* str(n) of a natural number
RECURSIVE IntText(_)
IntText(n) ==
    IF n < 10 THEN <<Digits[n + 1]>>
    ELSE IntText(n \div 10) \o <<Digits[(n % 10) + 1]>>

\* the JSON string literal of s: quotes and backslashes are escaped
JsonString(s) ==
    <<"\"">> \o Concat([i \in 1..Len(s) |->
                            IF s[i] = "\"" \/ s[i] = "\\"
                            THEN <<"\\", s[i]>> ELSE <<s[i]>>])
             \o <<"\"">>

\* json.dumps raises TypeError on a dict key that is not a str, int, float,
\* bool or None; default= is not applied to keys
RECURSIVE DumpsRaises(_)
DumpsRaises(v) ==
    \/ v.t = "dict" /\ \E i \in 1..Len(v.keys) : v.keys[i].t \in {"object", "datetime", "list", "dict"}
    \/ \E i \in 1..Len(v.items) : DumpsRaises(v.items[i])

\* the text of a dict key in JSON
JsonKey(k) ==
    IF k.t = "str" THEN JsonString(k.s)
    ELSE IF k.t = "int" THEN JsonString(IntText(k.n))
    ELSE IF k.t = "bool" THEN JsonString(IF k.n = 1 THEN <<"t", "r", "u", "e">> ELSE <<"f", "a", "l", "s", "e">>)
    ELSE JsonString(<<"n", "u", "l", "l">>)

Spaces(n) == [i \in 1..n |-> " "]

\* json.dumps(value, indent=indent, default=str) of a value on which it does
\* not raise, at nesting depth level
RECURSIVE DumpsIndent(_, _, _)
DumpsIndent(v, indent, level) ==
    IF v.t = "none" THEN <<"n", "u", "l", "l">>
    ELSE IF v.t = "bool" THEN (IF v.n = 1 THEN <<"t", "r", "u", "e">> ELSE <<"f", "a", "l", "s", "e">>)
    ELSE IF v.t = "int" THEN IntText(v.n)
    ELSE IF v.t \in {"str", "datetime", "object"} THEN JsonString(v.s)
    ELSE LET inner == <<"\n">> \o Spaces(indent * (level + 1))
             outer == <<"\n">> \o Spaces(indent * level)
             parts == [i \in 1..Len(v.items) |->
                          (IF v.t = "dict" THEN JsonKey(v.keys[i]) \o <<":", " ">>
                           ELSE << >>)
                          \o DumpsIndent(v.items[i], indent, level + 1)]
             open  == IF v.t = "dict" THEN <<"{">> ELSE <<"[">>
             close == IF v.t = "dict" THEN <<"}">> ELSE <<"]">>
         IN  IF v.items = << >> THEN open \o close
             ELSE open \o inner \o Join(<<",">> \o inner, parts) \o outer \o close

\* repr(value) and str(value)
RECURSIVE PyRepr(_)
PyRepr(v) ==
    IF v.t = "none" THEN <<"N", "o", "n", "e">>
    ELSE IF v.t = "bool" THEN (IF v.n = 1 THEN <<"T", "r", "u", "e">> ELSE <<"F", "a", "l", "s", "e">>)
    ELSE IF v.t = "int" THEN IntText(v.n)
    ELSE IF v.t = "str" THEN <<"'">> \o v.s \o <<"'">>
    ELSE IF v.t \in {"datetime", "object"} THEN <<"<">> \o v.s \o <<">">>
    ELSE LET parts == [i \in 1..Len(v.items) |->
                          (IF v.t = "dict" THEN PyRepr(v.keys[i]) \o <<":", " ">>
                           ELSE << >>)
                          \o PyRepr(v.items[i])]
         IN  (IF v.t = "dict" THEN <<"{">> ELSE <<"[">>)
                \o Join(<<",", " ">>, parts)
                \o (IF v.t = "dict" THEN <<"}">> ELSE <<"]">>)

PyStr(v) == IF v.t \in {"str", "datetime", "object"} THEN v.s ELSE PyRepr(v)

----------------------------------------------------------------------------
(* The values of a column, and a record in the edit and create forms        *)

StrA == <<"a">>

StrK == <<"k">>

StrM == <<"m">>

StrObj == <<"o", "b", "j">>

\* values that are not lists or dicts
Leaves ==
    {VNone, VBool(TRUE), VInt(0), VInt(12), VStr(<< >>), VStr(StrA),
     VStr(<<"{", "}">>), VStr(<<"x", "\"">>), VObject(StrObj)}

\* a list of n zeros
Zeros(n) == VList([i \in 1..n |-> VInt(0)])

\* lists and dicts: empty, of one leaf, nested, with a key that has no JSON
\* form, and long ones
Structures ==
    {VList(<< >>), VDict(<< >>, << >>)}
    \cup {VList(<<l>>) : l \in Leaves}
    \cup {VDict(<<VStr(StrK)>>, <<l>>) : l \in Leaves}
    \cup {VList(<<VInt(0), VStr(StrA)>>),
          VDict(<<VStr(StrK), VStr(StrM)>>, <<VInt(12), VList(<<VNone>>)>>),
          VDict(<<VStr(StrK)>>, <<VDict(<<VStr(StrM)>>, <<VInt(0)>>)>>),
          VDict(<<VObject(StrObj)>>, <<VInt(0)>>),
          VList(<<VDict(<<VObject(StrObj)>>, <<VInt(0)>>)>>)}
    \cup {Zeros(n) : n \in {49, 50}}

ColumnValues ==
    Leaves \cup {VDateTime(<<"2", "0", "2", "3", "-", "0", "1", "-", "0", "1", " ", "1", "2", ":", "3", "0", ":", "4", "5">>)} \cup Structures

\* the declared types of the column a
ColumnTypes == {<<"J", "S", "O", "N">>, <<"j", "s", "o", "n", "b">>, <<"T", "e", "x", "t">>}

\* get_model_fields of a model with the primary key id and the columns a, b
ValueModelFields(t) ==
    << [name |-> "id", type |-> <<"I", "N", "T", "E", "G", "E", "R">>, primary_key |-> TRUE],
       [name |-> "a",  type |-> t,         primary_key |-> FALSE],
       [name |-> "b",  type |-> <<"V", "A", "R", "C", "H", "A", "R", "(", "1", "2", ")">>, primary_key |-> FALSE] >>

\* json_fields of create_form: the columns whose type contains "json"
json_fields(fields) ==
    {fields[i].name : i \in {j \in 1..Len(fields) :
                                Contains(Lower(fields[j].type), <<"j", "s", "o", "n">>)}}

\* the conversion without the test that leaves strings alone
ConvertValue_DoubleEncode(is_json, value) ==
    IF is_json /\ value # VNone
    THEN IF DumpsRaises(value) THEN VStr(PyStr(value))
         ELSE VStr(DumpsIndent(value, 2, 0))
    ELSE value

\* create_form, lines 74-86: the value of one column of obj
ConvertValue(is_json, value) ==
    IF is_json /\ value # VNone /\ ~IsStr(value)
    THEN IF DumpsRaises(value) THEN VStr(PyStr(value))
         ELSE VStr(DumpsIndent(value, 2, 0))
    ELSE value

\* create_form, lines 65-88: converted_obj
ConvertObj(fields, obj) ==
    [c \in DOMAIN obj |-> ConvertValue(c \in json_fields(fields), obj[c])]

\* DynamicForm(obj=obj): the data of every field of the form
FormOfObj(form_fields, obj) ==
    [f \in {form_fields[i].name : i \in 1..Len(form_fields)} |-> obj[f]]

\* no record: the item of a create request
NoItem == [c \in {"id", "a", "b"} |-> VNone]

\* the texts a client may put into the field a
SubmitTexts == {<< >>, <<" ">>, <<"{">>, <<"[", "]">>, <<"1", "2">>}

\* edit_view, lines 215-221: the form of the retrieved item
LoadEditForm ==
    /\ call.op = "edit_view" /\ call.stage = "item"
    /\ call' = [call EXCEPT !.stage = "form",
                   !.form = FormOfObj(create_form(call.fields, TRUE, {}),
                                      ConvertObj(call.fields, call.item))]
    /\ UNCHANGED <<adminVars, areq, crudVars, fgen>>

\* edit_view, lines 223-237 and update, lines 118-120: a valid submission
\* with text in the field a and the other fields as loaded
SubmitEditForm(text) ==
    /\ call.op = "edit_view" /\ call.stage = "form"
    /\ text \in SubmitTexts \cup (IF IsStr(call.form["a"]) THEN {call.form["a"].s}
                                 ELSE {})
    /\ LET pk_fields == get_primary_key_fields(call.fields)
           excluded_fields == {"csrf_token"} \cup
                                 {pk_fields[i].name : i \in 1..Len(pk_fields)}
           data == [call.form EXCEPT !["a"] = VStr(text)]
           form_data == [f \in (DOMAIN data) \ excluded_fields |-> data[f]]
       IN  call' = [call EXCEPT !.stage = "written", !.text = text,
                       !.form_data = form_data,
                       !.stored = [c \in DOMAIN call.item |->
                                      IF c \in DOMAIN form_data THEN form_data[c]
                                      ELSE call.item[c]]]
    /\ UNCHANGED <<adminVars, areq, crudVars, fgen>>

\* create_view, lines 158-172 and create: a valid submission with text in
\* the field a
SubmitCreateForm(text) ==
    /\ call.op = "create_view" /\ call.stage = "form"
    /\ text \in SubmitTexts
    /\ LET form == create_form(call.fields, FALSE, {})
           names == {form[i].name : i \in 1..Len(form)}
           data == [f \in names |-> IF f = "a" THEN VStr(text) ELSE call.form[f]]
           form_data == [f \in {g \in names : data[g] # VNone} |-> data[f]]
       IN  call' = [call EXCEPT !.stage = "written", !.text = text,
                       !.form_data = form_data,
                       !.stored = [c \in DOMAIN call.item |->
                                      IF c \in DOMAIN form_data THEN form_data[c]
                                      ELSE call.item[c]]]
    /\ UNCHANGED <<adminVars, areq, crudVars, fgen>>

----------------------------------------------------------------------------
(* Display formatting (ModelView.format_column_value)                       *)

\* the glyphs U+2713 and U+2717
CheckMark == <<"U+2713">>

CrossMark == <<"U+2717">>

\* the formatters a view may register for the column: none, one that
\* returns a fixed text, one that returns "Custom: " and str of the value
Formatters == {"none", "fixed", "custom"}

\* self.column_formatters[column](item, column)
ApplyFormatter(formatter, value) ==
    IF formatter = "fixed" THEN <<"F">>
    ELSE <<"C", "u", "s", "t", "o", "m", ":", " ">> \o PyStr(value)

\* value.strftime("%Y-%m-%d %H:%M") of a datetime whose str is
\* "YYYY-MM-DD HH:MM:SS"
StrfTime(value) == SubSeq(value.s, 1, 16)

\* the None test ahead of the formatter lookup
format_column_value_NoneFirst(formatter, has_column, item_value) ==
    LET value == IF has_column THEN item_value ELSE VNone IN
    IF value = VNone THEN << >>
    ELSE IF formatter # "none" THEN ApplyFormatter(formatter, value)
    ELSE IF value.t = "bool" THEN (IF value.n = 1 THEN CheckMark ELSE CrossMark)
    ELSE IF value.t = "datetime" THEN StrfTime(value)
    ELSE PyStr(value)

\* ModelView.format_column_value(item, column); has_column says whether the
\* item has the column, item_value is its value there
format_column_value(formatter, has_column, item_value) ==
    LET value == IF has_column THEN item_value ELSE VNone IN
    IF formatter # "none" THEN ApplyFormatter(formatter, value)
    ELSE IF value = VNone THEN << >>
    ELSE IF value.t = "bool" THEN (IF value.n = 1 THEN CheckMark ELSE CrossMark)
    ELSE IF value.t = "datetime" THEN StrfTime(value)
    ELSE PyStr(value)

\* a call format_column_value(item, column)
CallFormat ==
    /\ call.op = "format_column_value" /\ ~call.done
    /\ call' = [call EXCEPT !.done = TRUE,
                   !.result = format_column_value(call.formatter,
                                                  call.has_column, call.value)]
    /\ UNCHANGED <<adminVars, areq, crudVars, fgen>>

----------------------------------------------------------------------------
(* Paging of the list (ModelView.list_view)                                 *)

\* AdminView.page_size as set by __init__
PageSize == 20

\* the literal cap in list_view
PerPageCap == 100

\* QuartAdminConfig.default_page_size and max_page_size as declared
DefaultPageSize == 20

MaxPageSize == 100

\* the values a configuration may give to default_page_size, max_page_size
ConfigPageSizes == {DefaultPageSize, 10}

ConfigMaxPageSizes == {MaxPageSize, 50, 150}

\* a query parameter: absent, an integer, or text that int() rejects
NoArg == [kind |-> "absent", n |-> 0]

IntArg(n) == [kind |-> "int", n |-> n]

TextArg == [kind |-> "text", n |-> 0]

PageArgs == {NoArg, TextArg} \cup {IntArg(n) : n \in {-1, 0, 1, 2, 3}}

PerPageArgs ==
    {NoArg, TextArg} \cup {IntArg(n) : n \in {-1, 0, 1, 2, 50, 51, 100, 101, 151}}

\* request.args.get(name, default)
ArgGet(arg, default) == IF arg.kind = "absent" THEN IntArg(default) ELSE arg

Min(a, b) == IF a <= b THEN a ELSE b

\* the index of a slice bound in a list of length len
SliceIndex(i, len) ==
    IF i < 0 THEN (IF i + len < 0 THEN 0 ELSE i + len)
    ELSE IF i > len THEN len ELSE i

\* a slice that takes the element at end as well
PySlice_Inclusive(items, start, end) ==
    LET lo == SliceIndex(start, Len(items))
        hi == SliceIndex(end + 1, Len(items))
    IN  IF lo < hi THEN SubSeq(items, lo + 1, hi) ELSE << >>

\* items[start:end]
PySlice(items, start, end) ==
    LET lo == SliceIndex(start, Len(items))
        hi == SliceIndex(end, Len(items))
    IN  IF lo < hi THEN SubSeq(items, lo + 1, hi) ELSE << >>

\* list_view, line 111
PerPage(arg, page_size, config_max) ==
    Min(ArgGet(arg, page_size).n, PerPageCap)

\* ModelView.list_view with a database provider: the query parameters, the
\* records of get_all, count, and the slice that is rendered
CallListView ==
    /\ call.op = "list_view" /\ ~call.done
    /\ LET page_arg     == ArgGet(call.page_arg, 1)
           per_page_arg == ArgGet(call.per_page_arg, PageSize)
       IN  IF page_arg.kind = "text" \/ per_page_arg.kind = "text"
           THEN call' = [call EXCEPT !.done = TRUE, !.result = "exception",
                            !.exc = "ValueError"]
           ELSE LET page      == page_arg.n
                    per_page  == PerPage(call.per_page_arg, PageSize,
                                         call.max_page_size)
                    start_idx == (page - 1) * per_page
                    end_idx   == start_idx + per_page
                IN  call' = [call EXCEPT !.done = TRUE,
                                !.result = "render_list",
                                !.total_count = Len(call.items),
                                !.page = page, !.per_page = per_page,
                                !.page_items = PySlice(call.items, start_idx,
                                                       end_idx)]
    /\ UNCHANGED <<adminVars, areq, crudVars, fgen>>

----------------------------------------------------------------------------
(* SQLAlchemyProvider.update and delete, with the calls made on the session *)

\* keyword data of an update: "zz" is a key the instance has no attribute for
DataKeys == {"a", "b", "zz"}

UpdateData == UNION {[D -> Vals] : D \in SUBSET DataKeys}

\* an update that commits before it flushes and refreshes
update_CommitFirst(instance, data) ==
    IF NotInstance(instance)
    THEN [row |-> instance, log |-> <<"execute">>,
          result |-> "none", exc |-> "ValueError"]
    ELSE [row |-> SetAttrs(instance, data),
          log |-> <<"execute", "commit", "flush", "refresh">>,
          result |-> "dict", exc |-> "none"]

\* SQLAlchemyProvider.update: select by key; not found raises ValueError;
\* setattr for the keys the instance has, flush, refresh, commit
update(instance, data) ==
    IF NotInstance(instance)
    THEN [row |-> instance, log |-> <<"execute">>,
          result |-> "none", exc |-> "ValueError"]
    ELSE [row |-> SetAttrs(instance, data),
          log |-> <<"execute", "flush", "refresh", "commit">>,
          result |-> "dict", exc |-> "none"]

\* SQLAlchemyProvider.delete: select by key; not found returns False;
\* session.delete, commit, return True
delete(instance) ==
    IF NotInstance(instance)
    THEN [row |-> instance, log |-> <<"execute">>,
          result |-> "False", exc |-> "none"]
    ELSE [row |-> NoRow, log |-> <<"execute", "delete", "commit">>,
          result |-> "True", exc |-> "none"]

\* await provider.update(model, session, {"id": id}, **data) or
\* await provider.delete(model, session, {"id": id})
CallProvider ==
    LET out == IF call.op = "update" THEN update(store[call.id], call.data)
               ELSE delete(store[call.id])
    IN
    /\ call.op \in {"update", "delete"}
    /\ ~call.done
    /\ store' = [store EXCEPT ![call.id] = out.row]
    /\ call' = [call EXCEPT !.done = TRUE, !.log = out.log,
                            !.result = out.result, !.exc = out.exc]
    /\ UNCHANGED <<model_fields, form_excluded_columns, session_factory,
                   next_id, req, last_update>>
    /\ UNCHANGED <<adminVars, areq, fgen>>

----------------------------------------------------------------------------
(* QuartAuthProvider (auth/quart_auth.py)                                   *)

AuthIds == 1..2

\* user_loader: absent, or a callable returning a user record or None
UserLoaders == {"none", "alice", "bob", "nobody"}

\* admin_check: absent, or a callable on the user
AdminChecks == {"none", "always", "never", "only_alice", "first_id",
                "anonymous_too"}

NoUser == [name |-> "None", id |-> 0]

\* QuartAuthProvider.get_current_user
get_current_user(authenticated, user_loader, auth_id) ==
    IF ~authenticated THEN NoUser
    ELSE IF user_loader = "alice" THEN [name |-> "alice", id |-> 0]
    ELSE IF user_loader = "bob" THEN [name |-> "bob", id |-> 0]
    ELSE IF user_loader = "nobody" THEN NoUser
    ELSE [name |-> "default", id |-> auth_id]

\* self.admin_check(user) for the callables of AdminChecks
ApplyAdminCheck(admin_check, user) ==
    CASE admin_check = "always"        -> TRUE
      [] admin_check = "never"         -> FALSE
      [] admin_check = "only_alice"    -> user.name = "alice"
      [] admin_check = "first_id"      -> user.id = 1
      [] admin_check = "anonymous_too" -> user = NoUser \/ user.name = "bob"

\* an access check that asks admin_check before is_authenticated
has_admin_access_CheckFirst(authenticated, admin_check, user_loader, auth_id) ==
    IF admin_check # "none"
    THEN ApplyAdminCheck(admin_check,
             get_current_user(authenticated, user_loader, auth_id))
    ELSE authenticated

\* QuartAuthProvider.has_admin_access
has_admin_access(authenticated, admin_check, user_loader, auth_id) ==
    IF ~authenticated THEN FALSE
    ELSE IF admin_check # "none"
         THEN ApplyAdminCheck(admin_check,
                  get_current_user(authenticated, user_loader, auth_id))
         ELSE TRUE

\* await provider.has_admin_access()
CallHasAdminAccess ==
    /\ call.op = "has_admin_access"
    /\ ~call.done
    /\ call' = [call EXCEPT !.done = TRUE,
                  !.result = has_admin_access(call.authenticated,
                                 call.admin_check, call.user_loader,
                                 call.auth_id)]
    /\ UNCHANGED <<adminVars, areq, crudVars, fgen>>

----------------------------------------------------------------------------
(* A view whose capability flags the application sets (views/base.py)       *)

NoGetter == [h |-> "none", can |-> {}, url |-> NoUrl]

\* the application assigns view.can_<c> = b, before or after add_view
SetCapability(c, b) ==
    /\ call.op = "view"
    /\ call' = [call EXCEPT !.view.can = IF b THEN @ \cup {c} ELSE @ \ {c}]
    /\ call'.view # call.view
    /\ UNCHANGED <<adminVars, areq, crudVars, fgen>>

\* admin.add_view(view) for the prepared view
AddPreparedView ==
    /\ call.op = "view"
    /\ ~call.added
    /\ add_view(call.view)
    /\ call' = [call EXCEPT !.added = TRUE]
    /\ UNCHANGED <<areq, crudVars, fgen>>

\* view.get_<h>_url() after the blueprint is registered; the flags read by
\* the call are kept with its result
GetUrl(h) ==
    /\ call.op = "view"
    /\ call.added
    /\ call' = [call EXCEPT !.got =
                  [h   |-> h,
                   can |-> call.view.can,
                   url |-> get_url(call.view, h,
                                   {rules[i].endpoint : i \in 1..Len(rules)})]]
    /\ UNCHANGED <<adminVars, areq, crudVars, fgen>>

----------------------------------------------------------------------------
(* Specifications of the registry and of the guarded routes                 *)

\* no CRUD request: the model view is configured and the table has one row
CrudQuiet ==
    /\ model_fields = SingleKey
    /\ form_excluded_columns = {}
    /\ session_factory = TRUE
    /\ store = [i \in Ids |-> IF i = 1 THEN Row(0, 0) ELSE NoRow]
    /\ next_id = 2
    /\ req = [r \in Reqs |-> IdleCrud]
    /\ last_update = [i \in Ids |-> 0]

FormQuiet == fgen = NoCall /\ call = NoHelperCall

AdminQuiet ==
    /\ views = EmptyMap
    /\ categories = EmptyMap
    /\ models = {}
    /\ rules = << >>
    /\ auth_provider = FALSE
    /\ require_auth = TRUE
    /\ nviews = 0
    /\ areq = IdleReq

InitAdmin ==
    /\ CrudQuiet
    /\ FormQuiet
    /\ views = EmptyMap
    /\ categories = EmptyMap
    /\ models = {}
    /\ rules = << >>
    /\ auth_provider \in BOOLEAN
    /\ require_auth \in BOOLEAN
    /\ nviews = 0
    /\ areq = IdleReq

NextRegistry ==
    \/ \E n \in Names, c \in Categories, e \in ExplicitEndpoints, a \in BOOLEAN :
          AddView(n, c, e, a)
    \/ \E n \in Names, c \in Categories : AddModelView(n, c)

SpecRegistry == InitAdmin /\ [][NextRegistry]_vars

AuthNames == {NameUser, NameuserLower}

NextAuth ==
    \/ \E n \in AuthNames, a \in BOOLEAN : AddView(n, "", NoStr, a)
    \/ \E ok \in BOOLEAN : CreateDefaultProviders(ok)
    \/ \E i \in 0..Len(rules), authd \in BOOLEAN, admin \in BOOLEAN :
          ReqStart(i, authd, admin)
    \/ CheckAuthenticated
    \/ CheckAdminAccess
    \/ InvokeHandler
    \/ ReqFinish

SpecAuth == InitAdmin /\ [][NextAuth]_vars

----------------------------------------------------------------------------
(* Specification of the CRUD handlers, one request at a time, starting      *)
(* from an empty table                                                      *)

Init ==
    /\ AdminQuiet
    /\ FormQuiet
    /\ model_fields \in {SingleKey, CompositeKey}
    /\ form_excluded_columns \in {{}, {"b"}}
    /\ session_factory = TRUE
    /\ store = [i \in Ids |-> NoRow]
    /\ next_id = 1
    /\ req = [r \in Reqs |-> IdleCrud]
    /\ last_update = [i \in Ids |-> 0]

Kinds == {"list", "create", "edit", "details", "delete"}

Next ==
    \/ \E kind \in Kinds : \E method \in Methods(kind), id \in Ids :
          Begin(1, kind, method, IF kind \in {"list", "create"} THEN 0 ELSE id)
    \/ ListView(1)
    \/ \E data \in FormData : CreateView(1, data, NoErrors)
    \/ \E errors \in FormErrors : CreateView(1, NoData, errors)
    \/ CreateCommit(1)
    \/ EditBegin(1)
    \/ \E data \in FormData : EditForm(1, data, NoErrors)
    \/ \E errors \in FormErrors : EditForm(1, NoData, errors)
    \/ UpdateCommit(1)
    \/ DetailsView(1)
    \/ DeleteBegin(1)
    \/ DeleteCommit(1)
    \/ \E e \in {"DBError", "Cancelled"} : Fault(1, e)
    \/ Finish(1)

Spec == Init /\ [][Next]_vars

\* SQLAlchemyProvider(session_factory=None, ...): the provider is built with
\* or without a session factory
InitProvider ==
    /\ AdminQuiet
    /\ FormQuiet
    /\ model_fields \in {SingleKey, CompositeKey}
    /\ form_excluded_columns \in {{}, {"b"}}
    /\ session_factory \in BOOLEAN
    /\ store = [i \in Ids |-> NoRow]
    /\ next_id = 1
    /\ req = [r \in Reqs |-> IdleCrud]
    /\ last_update = [i \in Ids |-> 0]

SpecProvider == InitProvider /\ [][Next]_vars

----------------------------------------------------------------------------
(* Specification of concurrent edit and delete submissions for the row 1    *)

InitConc ==
    /\ AdminQuiet
    /\ FormQuiet
    /\ model_fields = SingleKey
    /\ form_excluded_columns \in {{}, {"b"}}
    /\ session_factory = TRUE
    /\ store = [i \in Ids |-> IF i = 1 THEN Row(0, 0) ELSE NoRow]
    /\ next_id = 2
    /\ req = [r \in Reqs |-> IdleCrud]
    /\ last_update = [i \in Ids |-> 0]

\* a valid submission carrying the value v in every column field
Submission(form, v) ==
    [f \in ColumnNames |-> IF f \in FormFieldNames(form) THEN v ELSE None]

NextConc ==
    \/ \E r \in Reqs, kind \in {"edit", "delete"} : Begin(r, kind, "POST", 1)
    \/ \E r \in Reqs : EditBegin(r)
    \/ \E r \in Reqs, v \in Vals :
          EditForm(r, Submission(create_form(model_fields, TRUE,
                                             form_excluded_columns), v),
                   NoErrors)
    \/ \E r \in Reqs : UpdateCommit(r)
    \/ \E r \in Reqs : DeleteBegin(r)
    \/ \E r \in Reqs : DeleteCommit(r)

SpecConc == InitConc /\ [][NextConc]_vars

----------------------------------------------------------------------------
(* Specification of the form generators: every call on every model          *)

InitForm ==
    /\ AdminQuiet
    /\ CrudQuiet
    /\ call = NoHelperCall
    /\ \E fl \in FieldLists, o \in BOOLEAN, ex \in SUBSET ColumnNames :
          fgen = [NoCall EXCEPT !.fields = fl, !.has_obj = o, !.excluded = ex]

NextForm == CallCreateForm \/ CallCreateFormRoot

SpecForm == InitForm /\ [][NextForm]_vars

----------------------------------------------------------------------------
(* Specification of the field mapping: every column descriptor              *)

InitField ==
    /\ AdminQuiet
    /\ CrudQuiet
    /\ fgen = NoCall
    /\ \E ci \in ColumnInfos :
          call = [op |-> "get_field_for_column", column_info |-> ci,
                  done |-> FALSE, field |-> Field("none", << >>)]

NextField == CallGetField

SpecField == InitField /\ [][NextField]_vars

----------------------------------------------------------------------------
(* Specification of a record passing through the edit form and of a         *)
(* submission of the create form                                            *)

InitValue ==
    /\ AdminQuiet
    /\ CrudQuiet
    /\ fgen = NoCall
    /\ \E t \in ColumnTypes :
          \/ \E va \in ColumnValues, vb \in {VStr(StrA), VStr(<<"{", "}">>)} :
                call = [op |-> "edit_view", stage |-> "item",
                        fields |-> ValueModelFields(t),
                        item |-> [id |-> VInt(12), a |-> va, b |-> vb],
                        form |-> NoItem, text |-> << >>,
                        form_data |-> EmptyMap, stored |-> NoItem]
          \/ \E vb \in {VStr(StrA), VNone} :
                call = [op |-> "create_view", stage |-> "form",
                        fields |-> ValueModelFields(t),
                        item |-> NoItem,
                        form |-> [NoItem EXCEPT !["b"] = vb], text |-> << >>,
                        form_data |-> EmptyMap, stored |-> NoItem]

NextValue ==
    \/ LoadEditForm
    \/ \E text \in SubmitTexts \cup {v.s : v \in {call.form["a"]}} :
          SubmitEditForm(text)
    \/ \E text \in SubmitTexts : SubmitCreateForm(text)

SpecValue == InitValue /\ [][NextValue]_vars

----------------------------------------------------------------------------
(* Specification of the display formatting: every value of a column         *)

InitFormat ==
    /\ AdminQuiet
    /\ CrudQuiet
    /\ fgen = NoCall
    /\ \E f \in Formatters, h \in BOOLEAN, v \in ColumnValues :
          call = [op |-> "format_column_value", formatter |-> f,
                  has_column |-> h, value |-> v, done |-> FALSE,
                  result |-> << >>]

NextFormat == CallFormat

SpecFormat == InitFormat /\ [][NextFormat]_vars

----------------------------------------------------------------------------
(* Specification of the paging of the list: every query and configuration   *)

\* the most records the table holds
MaxItems == 3

InitList ==
    /\ AdminQuiet
    /\ CrudQuiet
    /\ fgen = NoCall
    /\ \E pa \in PageArgs, ppa \in PerPageArgs, d \in ConfigPageSizes,
          m \in ConfigMaxPageSizes, n \in 0..MaxItems :
          call = [op |-> "list_view", page_arg |-> pa, per_page_arg |-> ppa,
                  default_page_size |-> d, max_page_size |-> m,
                  items |-> [i \in 1..n |-> i], done |-> FALSE,
                  result |-> "none", exc |-> "none", total_count |-> 0,
                  page |-> 0, per_page |-> 0, page_items |-> << >>]

NextList == CallListView

SpecList == InitList /\ [][NextList]_vars

----------------------------------------------------------------------------
(* Specification of the provider's update and delete                        *)

StoredRows == {NoRow} \cup {Row(a, b) : a \in Vals, b \in Vals}

InitWrites ==
    /\ AdminQuiet
    /\ fgen = NoCall
    /\ model_fields = SingleKey
    /\ form_excluded_columns = {}
    /\ session_factory = TRUE
    /\ store \in [Ids -> StoredRows]
    /\ next_id = MaxId + 1
    /\ req = [r \in Reqs |-> IdleCrud]
    /\ last_update = [i \in Ids |-> 0]
    /\ \E op \in {"update", "delete"}, id \in Ids, data \in UpdateData :
          /\ op = "delete" => data = EmptyMap
          /\ call = [op |-> op, id |-> id, data |-> data, before |-> store,
                     done |-> FALSE, log |-> << >>, result |-> "none",
                     exc |-> "none"]

NextWrites == CallProvider

SpecWrites == InitWrites /\ [][NextWrites]_vars

----------------------------------------------------------------------------
(* Specification of the admin access check of QuartAuthProvider             *)

InitAccess ==
    /\ AdminQuiet
    /\ CrudQuiet
    /\ fgen = NoCall
    /\ \E authd \in BOOLEAN, ac \in AdminChecks, ul \in UserLoaders,
          aid \in AuthIds :
          call = [op |-> "has_admin_access", authenticated |-> authd,
                  admin_check |-> ac, user_loader |-> ul, auth_id |-> aid,
                  done |-> FALSE, result |-> FALSE]

NextAccess == CallHasAdminAccess

SpecAccess == InitAccess /\ [][NextAccess]_vars

----------------------------------------------------------------------------
(* Specification of edits in a table that holds more records than one       *)

\* the ids of the table: one record beside those of Ids, which the requests
\* address
RowIds == 1..(MaxId + 1)

InitEdit ==
    /\ AdminQuiet
    /\ FormQuiet
    /\ model_fields = SingleKey
    /\ form_excluded_columns \in {{}, {"b"}}
    /\ session_factory = TRUE
    /\ store = [i \in RowIds |-> Row(0, 0)]
    /\ next_id = MaxId + 2
    /\ req = [r \in Reqs |-> IdleCrud]
    /\ last_update = [i \in RowIds |-> 0]

NextEdit ==
    \/ \E method \in Methods("edit"), id \in Ids : Begin(1, "edit", method, id)
    \/ EditBegin(1)
    \/ \E data \in FormData : EditForm(1, data, NoErrors)
    \/ \E errors \in FormErrors : EditForm(1, NoData, errors)
    \/ UpdateCommit(1)
    \/ Finish(1)

SpecEdit == InitEdit /\ [][NextEdit]_vars

----------------------------------------------------------------------------
(* Specification of the route surface of one view                           *)

InitRoutes ==
    /\ AdminQuiet
    /\ CrudQuiet
    /\ fgen = NoCall
    /\ call = [op |-> "view", added |-> FALSE, got |-> NoGetter,
               view |-> AdminView(NameUser, "", NoStr, FALSE, FALSE)]

NextRoutes ==
    \/ \E c \in Capabilities, b \in BOOLEAN : SetCapability(c, b)
    \/ AddPreparedView
    \/ \E h \in Handlers : GetUrl(h)

SpecRoutes == InitRoutes /\ [][NextRoutes]_vars

----------------------------------------------------------------------------
(* Claims                                                                   *)

BothChecks == <<"is_authenticated", "has_admin_access">>

\* the request in the wrapper is for a guarded route: a route of a view that
\* had an authentication provider when it was registered, or the index route
\* when it applies its checks
GuardedReq ==
    /\ areq.pc # "idle"
    /\ IF areq.rule = 0 THEN areq.func = "async_wrapper"
       ELSE rules[areq.rule].view.auth_provider

\* C1: on a guarded route an unauthenticated request ends with 401 and an
\* authenticated request without admin access with 403, in both cases with
\* the handler not invoked; only an authenticated request with admin access
\* reaches the handler; is_authenticated is called before has_admin_access.
C1_GuardedRoute ==
    GuardedReq =>
        /\ areq.handler_invoked =>
              areq.authd /\ areq.admin /\ areq.calls = BothChecks
        /\ areq.pc = "rejected" =>
              /\ ~areq.handler_invoked
              /\ \/ ~areq.authd /\ areq.status = 401
                                /\ areq.calls = <<"is_authenticated">>
                 \/ areq.authd /\ ~areq.admin /\ areq.status = 403
                               /\ areq.calls = BothChecks
        /\ areq.pc \in {"handler", "rejected"} =>
              /\ ~areq.authd => areq.status = 401
              /\ areq.authd /\ ~areq.admin => areq.status = 403
              /\ areq.authd /\ areq.admin => areq.pc = "handler"
        /\ areq.calls = SubSeq(BothChecks, 1, Len(areq.calls))

\* a request of an authenticated user without admin access was rejected on a
\* route of a guarded view
C1_Witness ==
    /\ areq.rule > 0 /\ GuardedReq
    /\ areq.pc = "rejected" /\ areq.authd /\ areq.status = 403

\* the request in the wrapper is for a route of a view registered without an
\* authentication provider
UnguardedReq ==
    /\ areq.pc # "idle"
    /\ areq.rule > 0
    /\ ~rules[areq.rule].view.auth_provider

\* C2: a request to a route of a view without authentication capability goes
\* from the start directly to the handler: no is_authenticated or
\* has_admin_access call, no 401 or 403.
C2_NoAuthProvider ==
    UnguardedReq =>
        /\ areq.calls = << >>
        /\ areq.pc \in {"start", "handler"}
        /\ areq.status \notin {401, 403}

\* an unauthenticated request reached the handler of an unguarded view
C2_Witness ==
    UnguardedReq /\ areq.pc = "handler" /\ ~areq.authd /\ areq.handler_invoked

\* C3: no two registered views share an endpoint (add_view never raises, so a
\* second view with the endpoint of a registered one is a silent collision).
C3_UniqueEndpoints ==
    \A n1, n2 \in DOMAIN views :
        n1 # n2 => views[n1].endpoint # views[n2].endpoint

\* C4 as claimed: every session a finished handler acquired is released, and
\* it was rolled back exactly when the code in its scope raised.
C4_RollbackIffRaised ==
    \A r \in Reqs : \A i \in 1..Len(req[r].sessions) :
        LET sess == req[r].sessions[i] IN
        /\ req[r].pc = "done" => sess.released
        /\ sess.released => (sess.rollbacks = 1 <=> sess.raised # "none")

\* C4 (amended): every session a handler acquired is released on every exit
\* path; rollback is called once exactly when the code in the session scope
\* raised an error derived from Exception, and not at all when it raised a
\* cancellation; whatever was raised leaves the handler (it is not swallowed).
C4_SessionScope ==
    \A r \in Reqs : \A i \in 1..Len(req[r].sessions) :
        LET q    == req[r]
            sess == q.sessions[i]
        IN
        /\ (q.pc = "done" \/ i < Len(q.sessions)) => sess.released
        /\ ~sess.released => sess.rollbacks = 0 /\ sess.raised = "none"
        /\ sess.released =>
              (sess.rollbacks = 1 <=> sess.raised \in {"ValueError", "DBError"})
        /\ sess.rollbacks <= 1
        /\ sess.raised # "none" =>
              q.pc = "done" /\ q.result = "exception" /\ q.exc = sess.raised

\* a handler raised inside a session scope: rolled back and released
C4_Witness ==
    \E r \in Reqs : \E i \in 1..Len(req[r].sessions) :
        /\ req[r].pc = "done" /\ req[r].result = "exception"
        /\ req[r].sessions[i].raised = "DBError"
        /\ req[r].sessions[i].rollbacks = 1
        /\ req[r].sessions[i].released

NotFoundNotice == Notice("error", "not found")

\* C5: with a single primary key, the handler step of an edit, details or
\* delete request for an id without row ends the request with a redirect to
\* the list and a not-found notice, never with an exception, and leaves the
\* table unchanged (no update, no commit).
C5_MissingRecord ==
    [][\A r \in Reqs :
          ( /\ req[r].pc = "start"
            /\ req[r].kind \in {"edit", "details", "delete"}
            /\ Len(get_primary_key_fields(model_fields)) = 1
            /\ ~store[req[r].id].present
            /\ req'[r] # req[r] )
          => /\ req'[r].pc = "done"
             /\ req'[r].result = "redirect_list"
             /\ req'[r].exc = "none"
             /\ req'[r].notices = <<NotFoundNotice>>
             /\ req'[r].calls.update = 0
             /\ req'[r].commits = 0
             /\ store' = store]_vars

\* an edit request for an id without row was answered
C5_Witness ==
    \E r \in Reqs :
        /\ req[r].pc = "done" /\ req[r].kind = "edit"
        /\ req[r].calls.get_by_pk = 1 /\ ~req[r].item.present
        /\ req[r].result = "redirect_list"
        /\ req[r].notices = <<NotFoundNotice>>

\* C6: with concurrent edit and delete submissions no request ends in an
\* unhandled exception.
C6_NoRawException ==
    \A r \in Reqs : req[r].pc = "done" => req[r].result # "exception"

\* the columns of the edit form that are not primary-key columns
EditFormColumns ==
    LET form == create_form(model_fields, TRUE, form_excluded_columns)
    IN  {form[i].name : i \in {j \in 1..Len(form) : ~form[j].primary_key}}

\* C7: concurrent valid edits of an existing row do not reject each other
\* (with no delete, every finished edit ended with the success redirect), and
\* the row holds, in every non-primary-key form field, the value submitted by
\* the request whose update committed last.
C7_LastWriterWins ==
    /\ \A id \in Ids :
          (last_update[id] # 0 /\ store[id].present) =>
              \A f \in EditFormColumns :
                  store[id][f] = req[last_update[id]].data[f]
    /\ (\A d \in Reqs : req[d].kind # "delete") =>
          \A r \in Reqs :
              (req[r].pc = "done" /\ req[r].kind = "edit") =>
                  /\ req[r].result = "redirect_list"
                  /\ req[r].notices = <<Notice("success", "updated")>>

\* two edits of the same row with different values have both completed
C7_Witness ==
    \E r1, r2 \in Reqs :
        /\ r1 # r2
        /\ req[r1].pc = "done" /\ req[r2].pc = "done"
        /\ "update" \in req[r1].returned /\ "update" \in req[r2].returned
        /\ req[r1].id = req[r2].id
        /\ req[r1].data["a"] # req[r2].data["a"]
        /\ last_update[req[r1].id] = r1

WriteOp(q) == IF q.kind = "create" THEN "create" ELSE "update"

SuccessNotices == {Notice("success", "created"), Notice("success", "updated")}

\* C8: a create or edit request whose form validated calls create
\* (respectively update) exactly once, and ends with the redirect to the list
\* and one success notice when that call returned; the success notice is
\* emitted only if the call returned without raising.
C8_WriteOnce ==
    \A r \in Reqs :
        LET q == req[r] IN
        (q.kind \in {"create", "edit"} /\ q.validated) =>
            /\ q.calls[WriteOp(q)] = 1
            /\ q.calls.create + q.calls.update = 1
            /\ (\E i \in 1..Len(q.notices) : q.notices[i] \in SuccessNotices)
                  => WriteOp(q) \in q.returned
            /\ q.pc = "done" =>
                  IF WriteOp(q) \in q.returned
                  THEN /\ q.result = "redirect_list"
                       /\ Len(q.notices) = 1 /\ q.notices[1] \in SuccessNotices
                  ELSE /\ q.result = "exception"
                       /\ q.notices = << >>

\* a validated create request ended with the success redirect
C8_Witness ==
    \E r \in Reqs :
        /\ req[r].pc = "done" /\ req[r].kind = "create" /\ req[r].validated
        /\ req[r].calls.create = 1
        /\ req[r].result = "redirect_list"

\* a finished create or edit POST whose form failed validation
Rejected(q) ==
    /\ q.pc = "done"
    /\ q.kind \in {"create", "edit"}
    /\ q.method = "POST"
    /\ q.errors # NoErrors

\* one error notice per validation error of every field, and nothing else
OneNoticePerError(q) ==
    /\ \A i \in 1..Len(q.notices) : q.notices[i].category = "error"
    /\ \A f \in AllFieldNames :
          Cardinality({i \in 1..Len(q.notices) : q.notices[i].text = f})
             = q.errors[f]
    /\ Len(q.notices) = SumOver(q.errors, AllFieldNames)

C10_PrimaryKeyField ==
    fgen.generator # "none" =>
        \A i \in 1..Len(fgen.fields) :
            fgen.fields[i].primary_key =>
                ( (\E j \in 1..Len(fgen.form) : fgen.form[j] = fgen.fields[i])
                  <=> (fgen.has_obj /\ fgen.fields[i].name \notin fgen.excluded) )

----------------------------------------------------------------------------
(* Claims about the field mapping                                           *)

\* the call of get_field_for_column has returned
FieldReturned == call.op = "get_field_for_column" /\ call.done

HasValidator(field, name) ==
    \E i \in 1..Len(field.validators) : field.validators[i].v = name

\* not nullable, not primary key, no declared default
MustBeGiven(ci) == ~ci.nullable /\ ~ci.primary_key /\ ci.default = None

\* C11 (as stated): for any column descriptor, the field returned by
\* get_field_for_column is required exactly when the column is not nullable,
\* not a primary key and has no declared default.
C11_RequiredRule ==
    FieldReturned =>
        (HasValidator(call.field, "DataRequired") <=> MustBeGiven(call.column_info))

\* C11 (amended): the field of a column that does not map to a boolean field
\* is required exactly when the column is not nullable, not a primary key and
\* has no declared default, and is optional otherwise; a boolean field has no
\* validator at all.
C11_RequiredUnlessBoolean ==
    FieldReturned =>
        IF call.field.kind = "BooleanField"
        THEN call.field.validators = << >>
        ELSE /\ HasValidator(call.field, "DataRequired")
                    <=> MustBeGiven(call.column_info)
             /\ HasValidator(call.field, "Optional")
                    <=> ~MustBeGiven(call.column_info)

\* a non-nullable column with a falsy declared default got an optional field
C11_Witness ==
    /\ FieldReturned
    /\ call.field.kind = "StringField"
    /\ ~call.column_info.nullable /\ ~call.column_info.primary_key
    /\ call.column_info.default = 0
    /\ HasValidator(call.field, "Optional")

TypeHas(word) == Contains(Lower(call.column_info.type), word)

\* C12: the field kind is that of the first matching rule, tested in the order
\* int, bool, text or clob, json, datetime or timestamp, otherwise single-line
\* text, on the lower-cased type; a boolean field never has a required
\* validator.
C12_TypeMapping ==
    FieldReturned =>
        LET int  == TypeHas(<<"i", "n", "t">>)
            bool == TypeHas(<<"b", "o", "o", "l">>)
            text == TypeHas(<<"t", "e", "x", "t">>) \/ TypeHas(<<"c", "l", "o", "b">>)
            json == TypeHas(<<"j", "s", "o", "n">>)
            time == \/ TypeHas(<<"d", "a", "t", "e", "t", "i", "m", "e">>)
                    \/ TypeHas(<<"t", "i", "m", "e", "s", "t", "a", "m", "p">>)
            kind == call.field.kind
        IN  /\ int => kind = "IntegerField"
            /\ ~int /\ bool => kind = "BooleanField"
            /\ ~int /\ ~bool /\ (text \/ json) => kind = "TextAreaField"
            /\ ~int /\ ~bool /\ ~text /\ ~json /\ time => kind = "DateTimeField"
            /\ ~int /\ ~bool /\ ~text /\ ~json /\ ~time => kind = "StringField"
            /\ kind = "BooleanField" => ~HasValidator(call.field, "DataRequired")

\* a type that names both bool and int got the numeric field, and a column
\* that would be required got a boolean field without a required validator
C12_Witness ==
    /\ FieldReturned
    /\ TypeHas(<<"b", "o", "o", "l">>) /\ TypeHas(<<"i", "n", "t">>)
    /\ call.field.kind = "IntegerField"

\* the decimal digits of n < 100
Decimal(n) ==
    IF n < 10 THEN <<Digits[n + 1]>>
    ELSE <<Digits[(n \div 10) + 1], Digits[(n % 10) + 1]>>

\* the type contains the integer n in parentheses
TypeHasLength(n) == TypeHas(<<"(">> \o Decimal(n) \o <<")">>)

LengthsOf(field) ==
    {field.validators[i].max : i \in {j \in 1..Len(field.validators) :
                                         field.validators[j].v = "Length"}}

\* C13 (as stated): a column that falls through to the single-line text rule
\* gets a maximum length N if its type contains an integer N in parentheses,
\* and no length constraint if it contains no parenthesised integer.
C13_ParenLength ==
    FieldReturned /\ call.field.kind = "StringField" =>
        /\ \A n \in 0..99 : TypeHasLength(n) => LengthsOf(call.field) = {n}
        /\ (\A n \in 0..99 : ~TypeHasLength(n)) => LengthsOf(call.field) = {}

\* C13 (amended): a column that falls through to the single-line text rule
\* gets a maximum length N if its lower-cased type contains "char" and an
\* integer N in parentheses, and no length constraint otherwise.
C13_CharLength ==
    FieldReturned /\ call.field.kind = "StringField" =>
        /\ \A n \in 0..99 :
              TypeHasLength(n) /\ TypeHas(<<"c", "h", "a", "r">>)
                 => LengthsOf(call.field) = {n}
        /\ (\A n \in 0..99 : ~TypeHasLength(n)) \/ ~TypeHas(<<"c", "h", "a", "r">>)
                 => LengthsOf(call.field) = {}

\* VARCHAR(12) got the maximum length 12
C13_Witness ==
    /\ FieldReturned
    /\ call.field.kind = "StringField"
    /\ TypeHas(<<"v", "a", "r", "c", "h", "a", "r">>) /\ TypeHasLength(12)
    /\ LengthsOf(call.field) = {12}

----------------------------------------------------------------------------
(* Claims about JSON columns in the forms                                   *)

\* the compact JSON text of a value: no indentation, no space after a
\* separator; a leaf without JSON form is given as its string
RECURSIVE CompactJson(_)
CompactJson(v) ==
    IF v.t = "none" THEN <<"n", "u", "l", "l">>
    ELSE IF v.t = "bool" THEN (IF v.n = 1 THEN <<"t", "r", "u", "e">> ELSE <<"f", "a", "l", "s", "e">>)
    ELSE IF v.t = "int" THEN Decimal(v.n)
    ELSE IF v.t = "list"
         THEN <<"[">> \o Join(<<",">>, [i \in 1..Len(v.items) |->
                                           CompactJson(v.items[i])]) \o <<"]">>
    ELSE IF v.t = "dict"
         THEN <<"{">> \o Join(<<",">>, [i \in 1..Len(v.items) |->
                                           JsonString(v.keys[i].s) \o <<":">>
                                              \o CompactJson(v.items[i])]) \o <<"}">>
    ELSE JsonString(v.s)

\* the quote at position j of text is escaped: an odd number of backslashes
\* stands right before it
Escaped(text, j) ==
    LET run == {n \in 0..(j - 1) : \A m \in 1..n : text[j - m] = "\\"}
        longest == CHOOSE n \in run : \A n2 \in run : n2 <= n
    IN  longest % 2 = 1

\* position i of text is inside a string literal or is one of its quotes
InLiteral(text, i) ==
    \/ text[i] = "\""
    \/ Cardinality({j \in 1..(i - 1) : text[j] = "\"" /\ ~Escaped(text, j)}) % 2 = 1

\* text without the white space that is outside its string literals
StripWs(text) ==
    LET kept == {i \in 1..Len(text) :
                    text[i] \notin {" ", "\n"} \/ InLiteral(text, i)}
        nth(k) == CHOOSE i \in kept : Cardinality({j \in kept : j <= i}) = k
    IN  [k \in 1..Cardinality(kept) |-> text[nth(k)]]

\* every dict key in the value is a string
RECURSIVE StringKeys(_)
StringKeys(v) ==
    /\ \A i \in 1..Len(v.keys) : v.keys[i].t = "str"
    /\ \A i \in 1..Len(v.items) : StringKeys(v.items[i])

\* the value is a JSON structure: only null, booleans, numbers, strings,
\* lists and dicts with string keys
RECURSIVE IsJson(_)
IsJson(v) ==
    /\ v.t \in {"none", "bool", "int", "str", "list", "dict"}
    /\ \A i \in 1..Len(v.keys) : v.keys[i].t = "str"
    /\ \A i \in 1..Len(v.items) : IsJson(v.items[i])

\* the declared type of column c contains "json", in any case
IsJsonColumn(c) ==
    \E i \in 1..Len(call.fields) :
        /\ call.fields[i].name = c
        /\ \E j \in 1..(Len(call.fields[i].type) - 3) :
              Lower(SubSeq(call.fields[i].type, j, j + 3)) = <<"j", "s", "o", "n">>

\* the record has been loaded into the edit form
Loaded == call.op = "edit_view" /\ call.stage # "item"

\* C14: when a record is loaded into a form, the value of a JSON column that
\* is neither null nor a string becomes its indented JSON text (its string
\* representation when it cannot be serialized), null stays null, a string
\* stays the same string, and the value of any other column is unchanged.
C14_LoadIntoForm ==
    Loaded =>
        \A c \in DOMAIN call.form :
            LET v   == call.item[c]
                out == call.form[c]
            IN  IF ~IsJsonColumn(c) THEN out = v
                ELSE IF v = VNone THEN out = VNone
                ELSE IF v.t = "str" THEN out = v
                ELSE /\ out.t = "str"
                     /\ StringKeys(v) =>
                           /\ StripWs(out.s) = CompactJson(v)
                           /\ v.items # << >> =>
                                 SubSeq(out.s, 2, 4) = <<"\n", " ", " ">>
                     /\ ~StringKeys(v) => out.s = PyStr(v)

\* a dict in a JSON column was loaded as text
C14_Witness ==
    /\ Loaded
    /\ IsJsonColumn("a")
    /\ call.item["a"].t = "dict" /\ call.item["a"].items # << >>
    /\ call.form["a"].t = "str"

\* a submission has been handed to the data-access layer
Written == call.op \in {"edit_view", "create_view"} /\ call.stage = "written"

\* the JSON structures whose text the submitted text is
ParsedFrom(text) ==
    {v \in ColumnValues : IsJson(v) /\ StripWs(text) = CompactJson(v)}

\* C15: on submission of a create or edit form, the value of a JSON column
\* handed to the data-access layer is the parsed structure if the text is
\* valid JSON and the submitted string itself if it is malformed, empty or
\* blank.
C15_SubmitParsesJson ==
    Written /\ IsJsonColumn("a") =>
        /\ \A v \in ParsedFrom(call.text) : call.form_data["a"] = v
        /\ ParsedFrom(call.text) = {} => call.form_data["a"] = VStr(call.text)

\* the text of the field a was submitted as it was loaded
Unmodified == call.form["a"].t = "str" /\ call.text = call.form["a"].s

\* C16: loading a JSON structure into the edit form and submitting the text
\* unmodified stores a value equal to the structure.
C16_RoundTrip ==
    /\ call.op = "edit_view" /\ call.stage = "written"
    /\ IsJsonColumn("a") /\ Unmodified
    /\ IsJson(call.item["a"]) /\ call.item["a"].t \notin {"none", "str"}
    => call.stored["a"] = call.item["a"]

----------------------------------------------------------------------------
(* Claims about the display formatting                                      *)

\* format_column_value has returned
Formatted == call.op = "format_column_value" /\ call.done

\* item.get(column)
ShownValue == IF call.has_column THEN call.value ELSE VNone

\* C17: a registered formatter decides the result, also for a null, missing,
\* boolean or mapping value; otherwise null or missing gives the empty string,
\* a boolean its glyph, a date/time YYYY-MM-DD HH:MM, and any other value
\* that is not a mapping or sequence its plain string representation.
C17_FormatPriority ==
    Formatted =>
        LET v == ShownValue
            r == call.result
        IN  /\ call.formatter = "fixed" => r = <<"F">>
            /\ call.formatter = "custom" => r = <<"C", "u", "s", "t", "o", "m", ":", " ">> \o PyStr(v)
            /\ call.formatter = "none" =>
                  /\ v.t = "none" => r = << >>
                  /\ v.t = "bool" => r = (IF v.n = 1 THEN CheckMark ELSE CrossMark)
                  /\ v.t = "datetime" =>
                        /\ Len(r) = 16 /\ r = SubSeq(v.s, 1, Len(r))
                        /\ r[5] = "-" /\ r[8] = "-" /\ r[11] = " " /\ r[14] = ":"
                  /\ v.t = "int" => r = Decimal(v.n)
                  /\ v.t \in {"str", "object"} => r = v.s

\* a registered formatter decided the result for a missing value
C17_Witness ==
    /\ Formatted
    /\ call.formatter = "custom" /\ ~call.has_column
    /\ call.result = <<"C", "u", "s", "t", "o", "m", ":", " ", "N", "o", "n", "e">>

\* C18: without a formatter, the display string is truncated exactly when
\* the value is a mapping or sequence whose compact JSON text is longer than
\* 100 characters, and then has exactly 100 characters and ends in "...";
\* the string of any other value is never truncated.
C18_Truncation ==
    Formatted /\ call.formatter = "none" =>
        LET v == ShownValue
            r == call.result
        IN  /\ IsContainer(v) /\ IsJson(v) /\ Len(CompactJson(v)) > 100 =>
                  Len(r) = 100 /\ SubSeq(r, 98, 100) = <<".", ".", ".">>
            /\ v.t \in {"int", "str", "object"} => Len(r) = Len(PyStr(v))

\* C19: without a formatter, the display string of a mapping or sequence is
\* its compact JSON text, and its plain string representation when it cannot
\* be serialized.
C19_CompactDisplay ==
    Formatted /\ call.formatter = "none" /\ IsContainer(ShownValue) =>
        LET v == ShownValue
            r == call.result
        IN  /\ IsJson(v) /\ Len(CompactJson(v)) <= 100 => r = CompactJson(v)
            /\ ~StringKeys(v) => r = PyStr(v)

----------------------------------------------------------------------------
(* Claims about the list                                                    *)

\* list_view has rendered a page
Listed == call.op = "list_view" /\ call.done /\ call.result = "render_list"

\* C20: for every list request and every per_page parameter, the page size
\* used to slice and render never exceeds the configured max_page_size, and
\* without a per_page parameter the page size is the configured default.
C20_PageSizeClamp ==
    Listed =>
        /\ call.per_page <= call.max_page_size
        /\ Len(call.page_items) <= call.max_page_size
        /\ call.per_page_arg.kind = "absent" => call.per_page = call.default_page_size

----------------------------------------------------------------------------
(* C21: single-column keys only                                             *)

\* the positions of the key columns of the model
KeyColumns == {i \in 1..Len(model_fields) : model_fields[i].primary_key}

KeyedKinds == {"edit", "details", "delete"}

\* C21: when the model does not have exactly one primary-key column, an edit,
\* details or delete request makes no get-by-key, update or delete call, never
\* gets past its key check, and ends with the ValueError raised there.
C21_CompositeKeyFatal ==
    \A r \in Reqs :
        (Cardinality(KeyColumns) # 1 /\ req[r].kind \in KeyedKinds) =>
            /\ req[r].calls.get_by_pk = 0
            /\ req[r].calls.update = 0
            /\ req[r].calls.delete = 0
            /\ req[r].commits = 0
            /\ req[r].pc \in {"start", "done"}
            /\ req[r].pc = "done" =>
                  req[r].result = "exception" /\ req[r].exc = "ValueError"

C21_Witness ==
    /\ Cardinality(KeyColumns) = 2
    /\ req[1].kind = "delete"
    /\ req[1].pc = "done"
    /\ req[1].exc = "ValueError"
    /\ Len(req[1].sessions) = 1

----------------------------------------------------------------------------
(* C22: a provider without a session factory                                *)

\* the request has reached a point where its handler acquires a session
AcquiresSession(q) ==
    \/ q.kind \in {"list", "details", "delete"}
    \/ q.kind = "edit" /\ Cardinality(KeyColumns) = 1
    \/ q.kind = "create" /\ q.validated

\* C22: without a session factory no session is ever opened, so no scope body
\* runs (no provider call, no commit), no rollback is made and the store stays
\* as it was; a request whose handler acquires a session ends with the
\* ValueError of get_session.
C22_NoSessionFactory ==
    ~session_factory =>
        /\ store = [i \in Ids |-> NoRow]
        /\ \A r \in Reqs :
              /\ req[r].sessions = << >>
              /\ req[r].calls = NoCalls
              /\ req[r].commits = 0
              /\ req[r].returned = {}
              /\ (req[r].pc = "done" /\ AcquiresSession(req[r])) =>
                    req[r].result = "exception" /\ req[r].exc = "ValueError"
              /\ req[r].pc \in {"idle", "start", "done"}

C22_Witness ==
    /\ ~session_factory
    /\ Cardinality(KeyColumns) = 1
    /\ req[1].kind = "details"
    /\ req[1].pc = "done"
    /\ req[1].exc = "ValueError"
    /\ req[1].sessions = << >>

----------------------------------------------------------------------------
(* C23: the field data handed to the data layer                             *)

\* request r has handed its field data to create or update
HandedOver(r) == req[r].calls.create + req[r].calls.update > 0

\* C23: the field data a create or an edit hands to the data layer has no
\* csrf_token entry and no entry whose value is None, and every entry carries
\* the submitted value of its field unchanged.
C23_NoTokenNoNone ==
    \A r \in Reqs :
        HandedOver(r) =>
            /\ "csrf_token" \notin DOMAIN req[r].form_data
            /\ \A f \in DOMAIN req[r].form_data :
                  /\ req[r].form_data[f] # None
                  /\ req[r].form_data[f] = req[r].data[f]

----------------------------------------------------------------------------
(* C24: the route surface follows the capability flags                      *)

RegisteredHandlers == {rules[i].handler : i \in 1..Len(rules)}

\* C24: once a view is added, its list route is registered and each of the
\* create, edit, details, delete and export routes is registered exactly when
\* its flag was set at the time of add_view, each once, delete for POST only;
\* a URL getter called while its flag is not set returns no URL.
C24_RouteSurface ==
    /\ call.added =>
          /\ "list" \in RegisteredHandlers
          /\ \A i \in 1..Len(rules) :
                /\ rules[i].handler \in {"list"} \cup rules[i].view.can
                /\ rules[i].handler = "delete" => rules[i].methods = {"POST"}
                /\ \A c \in rules[i].view.can : c \in RegisteredHandlers
          /\ Cardinality(RegisteredHandlers) = Len(rules)
    /\ ~call.added => rules = << >>
    /\ (call.got.h \in Capabilities /\ call.got.h \notin call.got.can) =>
          call.got.url = NoUrl

C24_Witness ==
    /\ call.added
    /\ RegisteredHandlers = {"list", "delete"}
    /\ call.view.can = {"delete", "edit"}
    /\ call.got.h = "create"
    /\ call.got.url = NoUrl

----------------------------------------------------------------------------
(* C25: update and delete of the provider                                   *)

\* the calls of the log that write: flush, refresh, delete and commit
WriteCalls(log) ==
    LET Writes(c) == c \in {"flush", "refresh", "delete", "commit"}
    IN  SelectSeq(log, Writes)

\* the value attribute k must have after an update with data
Updated(old, data, k) == IF k \in DOMAIN data THEN data[k] ELSE old

\* C25: for a key that matches no record, update raises the not-found error
\* and delete returns False, and neither writes, flushes or commits.  For an
\* existing record, delete removes it, commits once and returns True; update
\* sets the attributes named in the data that the instance has and no other,
\* then flushes, refreshes and commits once, in that order.  No other record
\* changes.
C25_ProviderWrites ==
    (call.op \in {"update", "delete"} /\ call.done) =>
        LET old == call.before[call.id]
            new == store[call.id]
        IN  /\ \A i \in Ids \ {call.id} : store[i] = call.before[i]
            /\ ~old.present =>
                  /\ store = call.before
                  /\ WriteCalls(call.log) = << >>
                  /\ call.op = "update" => call.exc = "ValueError"
                  /\ call.op = "delete" =>
                        call.result = "False" /\ call.exc = "none"
            /\ (old.present /\ call.op = "delete") =>
                  /\ new = NoRow
                  /\ WriteCalls(call.log) = <<"delete", "commit">>
                  /\ call.result = "True"
            /\ (old.present /\ call.op = "update") =>
                  /\ new.present
                  /\ new.a = Updated(old.a, call.data, "a")
                  /\ new.b = Updated(old.b, call.data, "b")
                  /\ WriteCalls(call.log) = <<"flush", "refresh", "commit">>
                  /\ call.exc = "none"

C25_Witness ==
    /\ call.op = "update"
    /\ call.done
    /\ call.before[call.id] = Row(0, 0)
    /\ DOMAIN call.data = {"a", "zz"}
    /\ store[call.id] = Row(1, 0)

----------------------------------------------------------------------------
(* C26: admin access of the Quart-Auth provider                             *)

\* the user admin_check is asked about
CurrentUser ==
    get_current_user(call.authenticated, call.user_loader, call.auth_id)

\* C26: has_admin_access is true only for an authenticated user; without an
\* admin_check every authenticated user has access; with an admin_check the
\* answer for an authenticated user is admin_check(current user).
C26_AdminAccess ==
    (call.op = "has_admin_access" /\ call.done) =>
        /\ call.result => call.authenticated
        /\ (call.authenticated /\ call.admin_check = "none") => call.result
        /\ (call.authenticated /\ call.admin_check # "none") =>
              call.result = ApplyAdminCheck(call.admin_check, CurrentUser)

C26_Witness ==
    /\ call.op = "has_admin_access"
    /\ call.done
    /\ ~call.authenticated
    /\ call.admin_check = "anonymous_too"
    /\ ~call.result

----------------------------------------------------------------------------
(* C27: an edit keeps to the record of its URL                              *)

KeyNames == {model_fields[i].name : i \in KeyColumns}

\* C27: a step of an edit request leaves every record other than the one
\* named by the id of its URL as it was, neither removes nor adds that record,
\* and the field data it hands to update has no primary-key column and no
\* csrf_token.
C27_EditKeepsKeys ==
    [][\A r \in Reqs :
          (req'[r].kind = "edit" /\ req'[r] # req[r]) =>
              /\ \A i \in DOMAIN store \ {req'[r].id} : store'[i] = store[i]
              /\ DOMAIN store' = DOMAIN store
              /\ store'[req'[r].id].present = store[req'[r].id].present
              /\ req'[r].calls.update > 0 =>
                    DOMAIN req'[r].form_data \cap (KeyNames \cup {"csrf_token"})
                        = {}]_vars

\* an edit of record 1 whose form carried another id has committed, and the
\* record next to it is as it was
C27_Witness ==
    /\ req[1].kind = "edit"
    /\ req[1].id = 1
    /\ req[1].data["id"] = 0
    /\ "update" \in req[1].returned
    /\ store[1] = Row(1, 1)
    /\ store[2] = Row(0, 0)

----------------------------------------------------------------------------
(* C28: the pages partition the records                                     *)

\* the query parameter is absent or an integer >= 1
Positive(arg) == arg.kind = "absent" \/ (arg.kind = "int" /\ arg.n >= 1)

\* a list request with page >= 1 and per_page >= 1 has been handled
Paged ==
    /\ call.op = "list_view" /\ call.done
    /\ Positive(call.page_arg) /\ Positive(call.per_page_arg)

\* the positions (from 1) of the records of page p with page size n
PagePositions(p, n) == {k \in 1..Len(call.items) : (p - 1) * n < k /\ k <= p * n}

\* C28: for page >= 1 and per_page >= 1 the rendered items are the records at
\* the positions (page-1)*per_page+1 .. page*per_page, in their order: at most
\* per_page of them, none for a page past the end (which still renders), and
\* every record is on the one page whose range holds its position.
C28_PagePartition ==
    Paged =>
        LET pos == PagePositions(call.page, call.per_page)
            first == (call.page - 1) * call.per_page
        IN  /\ call.result = "render_list"
            /\ call.page = ArgGet(call.page_arg, 1).n
            /\ call.per_page >= 1
            /\ Len(call.page_items) = Cardinality(pos)
            /\ Len(call.page_items) <= call.per_page
            /\ \A j \in 1..Len(call.page_items) :
                  call.page_items[j] = call.items[first + j]
            /\ first >= Len(call.items) => call.page_items = << >>
            /\ \A k \in 1..Len(call.items) :
                  /\ (\E j \in 1..Len(call.page_items) :
                         call.page_items[j] = call.items[k]) <=> k \in pos
                  /\ Cardinality({q \in 1..Len(call.items) :
                                     k \in PagePositions(q, call.per_page)}) = 1

C28_Witness ==
    /\ Paged
    /\ call.page = 2
    /\ call.per_page = 2
    /\ Len(call.items) = 3
    /\ call.page_items = <<call.items[3]>>

----------------------------------------------------------------------------
(* C29: the registry stays consistent                                       *)

\* the places (category, position) of the category lists
CategoryPlaces ==
    {pl \in (DOMAIN categories) \X (1..MaxViews) :
        pl[2] <= Len(categories[pl[1]])}

\* C29: after any sequence of add_view / add_model_view calls, the views in
\* the category lists are exactly the views of the name map, each at one
\* place, under its own category ("Default" when it has none), and the model
\* map has an entry for a name exactly when the view under that name is a
\* model view.
C29_RegistryConsistent ==
    /\ \A pl \in CategoryPlaces :
          LET v == categories[pl[1]][pl[2]]
          IN  /\ v.name \in DOMAIN views
              /\ views[v.name] = v
              /\ pl[1] = CategoryOf(v)
    /\ \A n \in DOMAIN views :
          Cardinality({pl \in CategoryPlaces :
                          categories[pl[1]][pl[2]] = views[n]}) = 1
    /\ Cardinality(CategoryPlaces) = Cardinality(DOMAIN views)
    /\ models = {n \in DOMAIN views : views[n].is_model}

----------------------------------------------------------------------------
(* C30: the guard of a view is fixed when the view is added                 *)

\* the rules added by the step
NewRules == (Len(rules) + 1)..Len(rules')

\* C30: the rules a step adds are all guarded or all unguarded: guarded exactly
\* when the view has an authentication provider once add_view has copied the
\* admin's, so always when the admin has one at that moment, whatever
\* require_auth is.  Registered rules never change, and a request to a view
\* route runs the function registered for it, whatever the admin's provider
\* and require_auth are by then; only the index route (rule 0) is guarded by
\* require_auth and the admin's provider as they are at the request.
C30_GuardFixedAtAdd ==
    [][/\ \A i \in 1..Len(rules) : i <= Len(rules') /\ rules'[i] = rules[i]
       /\ \A i \in NewRules :
             /\ rules'[i].func = "async_wrapper" <=> rules'[i].view.auth_provider
             /\ auth_provider => rules'[i].func = "async_wrapper"
             /\ \A j \in NewRules : rules'[j].func = rules'[i].func
       /\ (areq.pc = "idle" /\ areq'.pc = "start") =>
             /\ areq'.rule > 0 => areq'.func = rules[areq'.rule].func
             /\ areq'.rule = 0 =>
                   (areq'.func = "async_wrapper" <=> (require_auth /\ auth_provider))
      ]_vars

\* the admin got its provider after the view was added without one, and an
\* unauthenticated request reached a handler of that view
C30_Witness ==
    /\ auth_provider
    /\ areq.rule > 0
    /\ rules[areq.rule].func = "view_func"
    /\ areq.pc = "handler"
    /\ ~areq.authd

====
